---- MODULE Spec2Model ----
(***************************************************************************)
(* A model of the driver generators of api-generator-sifive:               *)
(*   scripts/generate_header.py, scripts/generate_drivers.py and           *)
(*   scripts/om2files.py.                                                  *)
(*                                                                         *)
(* Python values are modelled as follows.                                  *)
(*   str    a sequence of one-character strings, <<"U","A","R","T">>       *)
(*   int    an integer                                                     *)
(*   JSON   a tagged record: D(keys, vals) for a dict (insertion order     *)
(*          kept), L(items) for a list, S(chars) for a string, I(n) for a  *)
(*          number                                                         *)
(*   a function that may raise returns a record with a field "raised"      *)
(*   (Ok when it returned normally) next to its value and the module-level *)
(*   state it leaves behind.                                               *)
(***************************************************************************)
EXTENDS Integers, Sequences, FiniteSets, TLC

VARIABLES
    tool,            \* the script that runs
    args,            \* its parsed command line and loaded documents
    pc,              \* the position of main
    all_registers,   \* generate_header.Register.all_registers
    all_interrupts,  \* generate_header.Interrupt.all_interrupts
    NAME_DICT,       \* generate_header.NAME_DICT
    locals,          \* the local variables of main
    fs,              \* the file system: path -> text (NoFile when absent)
    fs0,             \* the file system when the run started
    raised,          \* the exception that ended the run (Ok when none)
    stderr,          \* the lines printed to sys.stderr
    call,            \* the last call of a function applied on its own
    ret,             \* what that call returned or raised
    before           \* the module-level state before that call

vars == <<tool, args, pc, all_registers, all_interrupts, NAME_DICT, locals,
          fs, fs0, raised, stderr, call, ret, before>>

None == [k |-> "none"]

\* An exception: its class, its message and the values formatted into it.
Raise(class, message, values) ==
    [class |-> class, message |-> message, values |-> values]

\* no exception
Ok == Raise("", "", None)
Exception == Raise("Exception", "", None)
TypeError == Raise("TypeError", "", None)
ValueError == Raise("ValueError", "", None)
IndexError == Raise("IndexError", "", None)
KeyError == Raise("KeyError", "", None)

----------------------------------------------------------------------------
(* Strings                                                                 *)

LowerMap ==
    ("A" :> "a") @@ ("B" :> "b") @@ ("C" :> "c") @@ ("D" :> "d") @@
    ("E" :> "e") @@ ("F" :> "f") @@ ("G" :> "g") @@ ("H" :> "h") @@
    ("I" :> "i") @@ ("J" :> "j") @@ ("K" :> "k") @@ ("L" :> "l") @@
    ("M" :> "m") @@ ("N" :> "n") @@ ("O" :> "o") @@ ("P" :> "p") @@
    ("Q" :> "q") @@ ("R" :> "r") @@ ("S" :> "s") @@ ("T" :> "t") @@
    ("U" :> "u") @@ ("V" :> "v") @@ ("W" :> "w") @@ ("X" :> "x") @@
    ("Y" :> "y") @@ ("Z" :> "z")

\* str.lower()
lower(s) ==
    [i \in 1..Len(s) |-> IF s[i] \in DOMAIN LowerMap THEN LowerMap[s[i]] ELSE s[i]]

\* str.upper()
upper(s) ==
    [i \in 1..Len(s) |->
        IF \E c \in DOMAIN LowerMap : LowerMap[c] = s[i]
        THEN CHOOSE c \in DOMAIN LowerMap : LowerMap[c] = s[i]
        ELSE s[i]]

\* str.startswith(p)
startswith(s, p) ==
    /\ Len(p) <= Len(s)
    /\ \A i \in 1..Len(p) : s[i] = p[i]

\* str.endswith(p)
endswith(s, p) ==
    /\ Len(p) <= Len(s)
    /\ \A i \in 1..Len(p) : s[Len(s) - Len(p) + i] = p[i]

\* p in s, for strings
contains(s, p) ==
    \E i \in 0..(Len(s) - Len(p)) : \A j \in 1..Len(p) : s[i + j] = p[j]

\* x in seq, for lists
member(x, seq) == \E i \in 1..Len(seq) : seq[i] = x

Digit == <<"0","1","2","3","4","5","6","7","8","9","a","b","c","d","e","f">>

RECURSIVE digits(_, _)
digits(n, radix) ==
    IF n < radix THEN <<Digit[n + 1]>>
    ELSE digits(n \div radix, radix) \o <<Digit[(n % radix) + 1]>>

\* str(n), for n >= 0
str(n) == digits(n, 10)

\* hex(n), for n >= 0
hex(n) == <<"0","x">> \o digits(n, 16)

RECURSIVE join(_, _)
\* sep.join(seq)
join(sep, seq) ==
    IF seq = <<>> THEN <<>>
    ELSE IF Len(seq) = 1 THEN seq[1]
    ELSE seq[1] \o sep \o join(sep, Tail(seq))

----------------------------------------------------------------------------
(* Python values compared across types: an int is never equal to a str.    *)

PyInt(n) == [k |-> "int", n |-> n]
PyStr(s) == [k |-> "str", s |-> s]
py_ne(a, b) == a # b

----------------------------------------------------------------------------
(* Parsed JSON                                                             *)

D(keys, vals) == [k |-> "dict", keys |-> keys, vals |-> vals]
L(items) == [k |-> "list", items |-> items]
S(s) == [k |-> "str", s |-> s]
I(n) == [k |-> "int", n |-> n]

isdict(j) == j.k = "dict"
islist(j) == j.k = "list"
isstr(j) == j.k = "str"

\* key in d, for a dict d
haskey(d, key) == member(key, d.keys)

\* d[key]
get(d, key) == d.vals[CHOOSE i \in 1..Len(d.keys) : d.keys[i] = key]

----------------------------------------------------------------------------
(* generate_header.py: data classes                                        *)

reserved == <<"r","e","s","e","r","v","e","d">>

\* Register(name, offset, width, group): a frozen dataclass, compared by value
Register(name, offset, width, group) ==
    [name |-> name, offset |-> offset, width |-> width, group |-> group]

\* f'{name}-{group}'
register_key(name, group) == name \o <<"-">> \o group

\* Register.make_register, were the name 'reserved' looked up in the cache
\* like any other
make_register_no_sentinel(cache, name, offset, width, group) ==
    LET key == register_key(name, group) IN
    IF key \in DOMAIN cache
    THEN IF \/ py_ne(PyInt(cache[key].offset), PyInt(offset))
            \/ py_ne(PyInt(cache[key].offset), PyInt(width))
            \/ py_ne(PyInt(cache[key].offset), PyStr(group))
         THEN [raised |-> Exception, value |-> None, all_registers |-> cache]
         ELSE [raised |-> Ok, value |-> cache[key], all_registers |-> cache]
    ELSE LET r == Register(name, offset, width, group) IN
         [raised |-> Ok, value |-> r, all_registers |-> (key :> r) @@ cache]

\* Register.make_register, applied to the cache all_registers = cache
make_register(cache, name, offset, width, group) ==
    LET key == register_key(name, group) IN
    IF name # reserved /\ key \in DOMAIN cache
    THEN IF \/ py_ne(PyInt(cache[key].offset), PyInt(offset))
            \/ py_ne(PyInt(cache[key].offset), PyInt(width))
            \/ py_ne(PyInt(cache[key].offset), PyStr(group))
         THEN [raised |-> Exception, value |-> None, all_registers |-> cache]
         ELSE [raised |-> Ok, value |-> cache[key], all_registers |-> cache]
    ELSE LET r == Register(name, offset, width, group) IN
         [raised |-> Ok, value |-> r, all_registers |-> (key :> r) @@ cache]

\* Interrupt(number, name): a frozen dataclass, compared by value
Interrupt(number, name) == [number |-> number, name |-> name]

\* Interrupt.make_interrupt, were the number of a cached name not compared
make_interrupt_unchecked(cache, number, name) ==
    LET i == Interrupt(number, name) IN
    [raised |-> Ok, value |-> i, all_interrupts |-> (name :> i) @@ cache]

\* Interrupt.make_interrupt, applied to the cache all_interrupts = cache
make_interrupt(cache, number, name) ==
    IF name # <<>> /\ name \in DOMAIN cache
    THEN IF cache[name].number # number
         THEN [raised |-> Exception, value |-> None, all_interrupts |-> cache]
         ELSE [raised |-> Ok, value |-> cache[name], all_interrupts |-> cache]
    ELSE LET i == Interrupt(number, name) IN
         [raised |-> Ok, value |-> i, all_interrupts |-> (name :> i) @@ cache]

\* DeviceBase(...): a frozen dataclass
DeviceBase(name, index, base_interrupt, base_address, interrupts, registers) ==
    [name |-> name, index |-> index, base_interrupt |-> base_interrupt,
     base_address |-> base_address, interrupts |-> interrupts,
     registers |-> registers]

----------------------------------------------------------------------------
(* generate_header.py: the walk of the object model                        *)

K_types == <<"_","t","y","p","e","s">>
K_memoryRegions == <<"m","e","m","o","r","y","R","e","g","i","o","n","s">>
K_addressSets == <<"a","d","d","r","e","s","s","S","e","t","s">>
K_base == <<"b","a","s","e">>
K_registerMap == <<"r","e","g","i","s","t","e","r","M","a","p">>
K_registerFields == <<"r","e","g","i","s","t","e","r","F","i","e","l","d","s">>
K_description == <<"d","e","s","c","r","i","p","t","i","o","n">>
K_name == <<"n","a","m","e">>
K_group == <<"g","r","o","u","p">>
K_bitRange == <<"b","i","t","R","a","n","g","e">>
K_size == <<"s","i","z","e">>
K_numberAtReceiver ==
    <<"n","u","m","b","e","r","A","t","R","e","c","e","i","v","e","r">>
T_OM == <<"O","M">>
T_OMInterrupt == <<"O","M","I","n","t","e","r","r","u","p","t">>

RECURSIVE walk_children_first(_)
RECURSIVE walk_each_children_first(_)
walk_each_children_first(seq) ==
    IF seq = <<>> THEN <<>>
    ELSE walk_children_first(Head(seq)) \o walk_each_children_first(Tail(seq))

\* a walk that yields a container after what it holds
walk_children_first(j_obj) ==
    IF isdict(j_obj) THEN walk_each_children_first(j_obj.vals) \o <<j_obj>>
    ELSE IF islist(j_obj) THEN walk_each_children_first(j_obj.items) \o <<j_obj>>
    ELSE <<>>

RECURSIVE walk(_)
RECURSIVE walk_each(_)
\* the concatenation of walk(v) for v in seq
walk_each(seq) ==
    IF seq = <<>> THEN <<>> ELSE walk(Head(seq)) \o walk_each(Tail(seq))

\* walk(j_obj): the containers of j_obj, each before what it holds
walk(j_obj) ==
    IF isdict(j_obj) THEN <<j_obj>> \o walk_each(j_obj.vals)
    ELSE IF islist(j_obj) THEN <<j_obj>> \o walk_each(j_obj.items)
    ELSE <<>>

\* '_types' in x, for a container x that walk yields
has_types(x) ==
    IF isdict(x) THEN haskey(x, K_types) ELSE member(S(K_types), x.items)

\* tag in x['_types']: Ok or the exception it raises. A list has no string
\* index; membership in a list is by element, in a string by substring, in a
\* dict by key, and a number has no membership.
tag_in_types_raises(x) ==
    IF islist(x) THEN TypeError
    ELSE IF get(x, K_types).k = "int" THEN TypeError
    ELSE Ok

\* the test of find_interrupts.type_match in the place of the membership
tag_in_types_suffix(tag, x) ==
    LET types == get(x, K_types) IN
    \E i \in 1..Len(types.items) :
        endswith(lower(types.items[i].s), lower(SubSeq(tag, 3, Len(tag))))

tag_in_types(tag, x) ==
    LET types == get(x, K_types) IN
    IF islist(types) THEN member(S(tag), types.items)
    ELSE IF isstr(types) THEN contains(types.s, tag)
    ELSE haskey(types, tag)

RECURSIVE filter_devices(_, _)
\* the nodes of p that pass both filters of find_devices, up to the first
\* node on which a filter raises
filter_devices(p, tag) ==
    IF p = <<>> THEN [raised |-> Ok, value |-> <<>>]
    ELSE IF ~has_types(Head(p)) THEN filter_devices(Tail(p), tag)
    ELSE IF tag_in_types_raises(Head(p)) # Ok
         THEN [raised |-> tag_in_types_raises(Head(p)), value |-> <<>>]
    ELSE LET rest == filter_devices(Tail(p), tag) IN
         IF tag_in_types(tag, Head(p))
         THEN [raised |-> rest.raised,
               value |-> IF rest.raised = Ok THEN <<Head(p)>> \o rest.value
                         ELSE <<>>]
         ELSE rest

\* list(enumerate(p))
enumerate(p) == [i \in 1..Len(p) |-> <<i - 1, p[i]>>]

\* find_devices(object_model, device)
find_devices(object_model, device) ==
    LET r == filter_devices(walk(object_model), T_OM \o device) IN
    [raised |-> r.raised, value |-> enumerate(r.value)]

----------------------------------------------------------------------------
(* generate_header.py: registers and interrupts of a device                *)

MultipleAddressSets ==
    Raise("Exception", "Can't handle multiple addressSets in a region", None)

RECURSIVE register_fields(_, _)
\* the inner loop of find_registers over mr['registerMap']['registerFields'],
\* started on the cache: the registers made up to the first raise
register_fields(fields, cache) ==
    IF fields = <<>>
    THEN [raised |-> Ok, value |-> <<>>, all_registers |-> cache]
    ELSE LET aReg == Head(fields)
             r == make_register(cache,
                                get(get(aReg, K_description), K_name).s,
                                get(get(aReg, K_bitRange), K_base).n,
                                get(get(aReg, K_bitRange), K_size).n,
                                get(get(aReg, K_description), K_group).s)
         IN  IF r.raised # Ok
             THEN [raised |-> r.raised, value |-> <<>>,
                   all_registers |-> r.all_registers]
             ELSE LET rest == register_fields(Tail(fields), r.all_registers) IN
                  [raised |-> rest.raised,
                   value |-> <<r.value>> \o rest.value,
                   all_registers |-> rest.all_registers]

\* a check that lets a region without any address set through
address_sets_more_than_one(mr) == Len(get(mr, K_addressSets).items) > 1

\* len(mr['addressSets']) != 1
address_sets_unsupported(mr) == Len(get(mr, K_addressSets).items) # 1

RECURSIVE memory_regions(_, _)
\* the outer loop of find_registers over object_model['memoryRegions']
memory_regions(regions, cache) ==
    IF regions = <<>>
    THEN [raised |-> Ok, value |-> <<>>, all_registers |-> cache]
    ELSE LET mr == Head(regions) IN
         IF address_sets_unsupported(mr)
         THEN [raised |-> MultipleAddressSets, value |-> <<>>,
               all_registers |-> cache]
         ELSE LET r == register_fields(
                           get(get(mr, K_registerMap), K_registerFields).items,
                           cache)
              IN  IF r.raised # Ok THEN r
                  ELSE LET rest == memory_regions(Tail(regions), r.all_registers)
                       IN  [raised |-> rest.raised,
                            value |-> r.value \o rest.value,
                            all_registers |-> rest.all_registers]

\* find_registers(object_model), started on the cache
find_registers(object_model, cache) ==
    memory_regions(get(object_model, K_memoryRegions).items, cache)

\* find_interrupts.type_match(dev, types), for a list of strings
type_match(dev, types) ==
    \E i \in 1..Len(types.items) :
        endswith(lower(types.items[i].s), lower(dev))

RECURSIVE filter_type_match(_, _)
\* p = list(p) of find_interrupts: the nodes of the walk whose types match
filter_type_match(p, device) ==
    IF p = <<>> THEN [raised |-> Ok, value |-> <<>>]
    ELSE IF ~has_types(Head(p)) THEN filter_type_match(Tail(p), device)
    ELSE IF islist(Head(p)) THEN [raised |-> TypeError, value |-> <<>>]
    ELSE LET rest == filter_type_match(Tail(p), device) IN
         IF type_match(device, get(Head(p), K_types))
         THEN [raised |-> rest.raised,
               value |-> IF rest.raised = Ok THEN <<Head(p)>> \o rest.value
                         ELSE <<>>]
         ELSE rest

\* an_interrupt.get('name', ''), were a name holding '@' kept
interrupt_name_kept(an_interrupt) ==
    IF haskey(an_interrupt, K_name) THEN get(an_interrupt, K_name).s ELSE <<>>

\* an_interrupt.get('name', ''), with a name holding '@' made ''
interrupt_name(an_interrupt) ==
    LET name == IF haskey(an_interrupt, K_name)
                THEN get(an_interrupt, K_name).s ELSE <<>>
    IN  IF contains(name, <<"@">>) THEN <<>> ELSE name

RECURSIVE make_interrupts(_, _)
\* the last loop of find_interrupts, which draws the interrupt nodes from the
\* lazy filters over p as it goes
make_interrupts(p, cache) ==
    IF p = <<>>
    THEN [raised |-> Ok, value |-> <<>>, all_interrupts |-> cache]
    ELSE IF ~has_types(Head(p)) THEN make_interrupts(Tail(p), cache)
    ELSE IF tag_in_types_raises(Head(p)) # Ok
         THEN [raised |-> tag_in_types_raises(Head(p)), value |-> <<>>,
               all_interrupts |-> cache]
    ELSE IF ~tag_in_types(T_OMInterrupt, Head(p))
         THEN make_interrupts(Tail(p), cache)
    ELSE LET r == make_interrupt(cache,
                                 get(Head(p), K_numberAtReceiver).n,
                                 interrupt_name(Head(p)))
         IN  IF r.raised # Ok
             THEN [raised |-> r.raised, value |-> <<>>,
                   all_interrupts |-> r.all_interrupts]
             ELSE LET rest == make_interrupts(Tail(p), r.all_interrupts) IN
                  [raised |-> rest.raised,
                   value |-> <<r.value>> \o rest.value,
                   all_interrupts |-> rest.all_interrupts]

\* the nodes the last loop of find_interrupts runs over: the walk of the last
\* node whose types match, or the empty list p when no node matches
interrupt_scope(matched) ==
    IF matched = <<>> THEN <<>> ELSE walk(matched[Len(matched)])

\* find_interrupts(object_model, device), started on the cache
find_interrupts(object_model, device, cache) ==
    LET m == filter_type_match(walk(object_model), device) IN
    IF m.raised # Ok
    THEN [raised |-> m.raised, value |-> <<>>, all_interrupts |-> cache]
    ELSE make_interrupts(interrupt_scope(m.value), cache)

\* min(seq), for a non-empty sequence of integers
min(seq) ==
    CHOOSE x \in {seq[i] : i \in 1..Len(seq)} :
        \A i \in 1..Len(seq) : x <= seq[i]

\* one pass of the loop of main over devices_om
device_base(device, index, dev_om, rcache, icache) ==
    LET regs == find_registers(dev_om, rcache) IN
    IF regs.raised # Ok
    THEN [raised |-> regs.raised, value |-> None,
          all_registers |-> regs.all_registers, all_interrupts |-> icache]
    ELSE
    LET ints == find_interrupts(dev_om, device, icache) IN
    IF ints.raised # Ok
    THEN [raised |-> ints.raised, value |-> None,
          all_registers |-> regs.all_registers,
          all_interrupts |-> ints.all_interrupts]
    ELSE IF ints.value = <<>>
    THEN [raised |-> ValueError, value |-> None,
          all_registers |-> regs.all_registers,
          all_interrupts |-> ints.all_interrupts]
    ELSE IF get(dev_om, K_memoryRegions).items = <<>>
    THEN [raised |-> IndexError, value |-> None,
          all_registers |-> regs.all_registers,
          all_interrupts |-> ints.all_interrupts]
    ELSE
    [raised |-> Ok,
     value |-> DeviceBase(
         device, index,
         min([i \in 1..Len(ints.value) |-> ints.value[i].number]),
         get(get(get(dev_om, K_memoryRegions).items[1],
                 K_addressSets).items[1], K_base).n,
         ints.value, regs.value),
     all_registers |-> regs.all_registers,
     all_interrupts |-> ints.all_interrupts]

----------------------------------------------------------------------------
(* generate_header.py: the templates                                       *)

RECURSIVE remove_spaces(_)
\* s.replace(" ", "")
remove_spaces(s) ==
    IF s = <<>> THEN <<>>
    ELSE IF Head(s) = " " THEN remove_spaces(Tail(s))
    ELSE <<Head(s)>> \o remove_spaces(Tail(s))

RECURSIVE lstrip(_)
lstrip(s) == IF s # <<>> /\ Head(s) = " " THEN lstrip(Tail(s)) ELSE s

RECURSIVE rstrip(_)
rstrip(s) ==
    IF s # <<>> /\ s[Len(s)] = " " THEN rstrip(SubSeq(s, 1, Len(s) - 1)) ELSE s

\* s.strip()
strip(s) == rstrip(lstrip(s))

\* the index of the last '_' of s, 0 when it has none
last_underscore(s) ==
    IF \E i \in 1..Len(s) : s[i] = "_"
    THEN CHOOSE i \in 1..Len(s) :
             s[i] = "_" /\ \A j \in (i + 1)..Len(s) : s[j] # "_"
    ELSE 0

\* s.split('_')[-1]
last_segment(s) == SubSeq(s, last_underscore(s) + 1, Len(s))

\* "_".join(s.split('_')[:-1])
without_last_segment(s) == SubSeq(s, 1, last_underscore(s) - 1)

\* the normalisation of a register's name or group in generate_offsets
normalized(s) == remove_spaces(strip(upper(s)))

\* the group generate_offsets would compose the macro name with, were the
\* name tested against the last segment without the "_" after it
macro_group_prefix(a_reg) ==
    LET name == normalized(a_reg.name)
        group == normalized(a_reg.group)
    IN  IF startswith(name, last_segment(group))
        THEN without_last_segment(group)
        ELSE group

\* the group generate_offsets composes the macro name with
macro_group(a_reg) ==
    LET name == normalized(a_reg.name)
        group == normalized(a_reg.group)
    IN  IF startswith(name, last_segment(group) \o <<"_">>)
        THEN without_last_segment(group)
        ELSE group

R_REGISTER == <<"_","R","E","G","I","S","T","E","R","_">>

\* the macro name generate_offsets composes for a register; `group is not ""`
\* is `group != ""`, CPython keeping one object for the empty str
macro_name(cap_device, a_reg) ==
    IF macro_group(a_reg) # <<>>
    THEN cap_device \o R_REGISTER \o macro_group(a_reg) \o <<"_">>
             \o normalized(a_reg.name)
    ELSE cap_device \o R_REGISTER \o normalized(a_reg.name)

RECURSIVE rshift(_, _)
\* n >> k: k halvings, each rounding down
rshift(n, k) == IF k = 0 THEN n ELSE rshift(n \div 2, k - 1)

RECURSIVE bitand(_, _)
\* a & b for a mask b >= 0, bit by bit from the lowest
bitand(a, b) ==
    IF b = 0 THEN 0
    ELSE (a % 2) * (b % 2) + 2 * bitand(a \div 2, b \div 2)

\* '#define <name> <value>'
Define(name, value) == [name |-> name, value |-> value]

\* macro_line of generate_offsets, were the bit within the byte masked with
\* 0xF
macro_line_nibble(cap_device, a_reg) ==
    LET n == macro_name(cap_device, a_reg) IN
    << Define(n, a_reg.offset),
       Define(n \o <<"_","B","Y","T","E">>, rshift(a_reg.offset, 3)),
       Define(n \o <<"_","B","I","T">>, bitand(a_reg.offset, 15)),
       Define(n \o <<"_","W","I","D","T","H">>, a_reg.width) >>

\* macro_line of generate_offsets: the four macros of a register, with
\* offset >> 3 and offset & 0x7
macro_line(cap_device, a_reg) ==
    LET n == macro_name(cap_device, a_reg) IN
    << Define(n, a_reg.offset),
       Define(n \o <<"_","B","Y","T","E">>, rshift(a_reg.offset, 3)),
       Define(n \o <<"_","B","I","T">>, bitand(a_reg.offset, 7)),
       Define(n \o <<"_","W","I","D","T","H">>, a_reg.width) >>

\* counter[key] += 1, for a Counter kept as its items in insertion order
count_up(counter, key) ==
    IF \E i \in 1..Len(counter) : counter[i].key = key
    THEN [i \in 1..Len(counter) |->
             IF counter[i].key = key
             THEN [key |-> key, count |-> counter[i].count + 1]
             ELSE counter[i]]
    ELSE Append(counter, [key |-> key, count |-> 1])

\* the count the counter holds for key
count_of(counter, key) ==
    IF \E i \in 1..Len(counter) : counter[i].key = key
    THEN (CHOOSE c \in {counter[i] : i \in 1..Len(counter)} : c.key = key).count
    ELSE 0

RECURSIVE offsets_of_numbered(_, _, _)
\* the loop of generate_offsets, were a name the counter has seen made
\* unique by the number of times it was seen
offsets_of_numbered(cap_device, registers, counter) ==
    IF registers = <<>> THEN [value |-> <<>>, NAME_DICT |-> counter]
    ELSE IF Head(registers).name = reserved
         THEN offsets_of_numbered(cap_device, Tail(registers), counter)
    ELSE LET n == macro_name(cap_device, Head(registers))
             seen == count_of(counter, n)
             rest == offsets_of_numbered(cap_device, Tail(registers),
                                         count_up(counter, n))
             lines == macro_line(cap_device, Head(registers))
         IN  [value |->
                  <<IF seen = 0 THEN lines
                    ELSE [i \in 1..Len(lines) |->
                             Define(lines[i].name \o str(seen), lines[i].value)]>>
                      \o rest.value,
              NAME_DICT |-> rest.NAME_DICT]

RECURSIVE offsets_of(_, _, _)
\* the loop of generate_offsets over dev_list[0].registers
offsets_of(cap_device, registers, counter) ==
    IF registers = <<>> THEN [value |-> <<>>, NAME_DICT |-> counter]
    ELSE IF Head(registers).name = reserved
         THEN offsets_of(cap_device, Tail(registers), counter)
    ELSE LET rest == offsets_of(cap_device, Tail(registers),
                         count_up(counter, macro_name(cap_device, Head(registers))))
         IN  [value |-> <<macro_line(cap_device, Head(registers))>> \o rest.value,
              NAME_DICT |-> rest.NAME_DICT]

\* generate_offsets(device_name, dev_list), started on NAME_DICT = counter
generate_offsets(device_name, dev_list, counter) ==
    IF dev_list # <<>>
    THEN offsets_of(upper(device_name), dev_list[1].registers, counter)
    ELSE [value |-> <<>>, NAME_DICT |-> counter]

\* the named-offset macros of generate_interrupt_defines
interrupt_offsets(dev, base) ==
    LET named == SelectSeq(base.interrupts, LAMBDA i : i.name # <<>>) IN
    [n \in 1..Len(named) |->
        Define(dev \o <<"_","I","N","T","E","R","R","U","P","T","_",
                        "O","F","F","S","E","T","_">>
                   \o remove_spaces(upper(named[n].name)),
               named[n].number - base.base_interrupt)]

\* generate_interrupt_defines(bases, device)
generate_interrupt_defines(bases, device) ==
    IF bases = <<>> THEN [raised |-> IndexError, value |-> None]
    ELSE IF bases[1].interrupts = <<>> THEN [raised |-> Ok, value |-> <<>>]
    ELSE [raised |-> Ok,
          value |-> [INTERRUPT_BASES |->
                         [i \in 1..Len(bases) |-> bases[i].base_interrupt],
                     INTERRUPT_COUNT |-> Len(bases[1].interrupts),
                     INTERRUPT_OFFSET |->
                         interrupt_offsets(remove_spaces(upper(device)),
                                           bases[1])]]

\* generate_base_hdr, were the base address taken from the first device only,
\* as the registers and the interrupts are
generate_base_hdr_first_base(vendor, device, devlist, counter) ==
    LET interrupts == generate_interrupt_defines(devlist, device)
        offsets == generate_offsets(device, devlist, counter)
    IN  IF interrupts.raised # Ok
        THEN [raised |-> interrupts.raised, value |-> None,
              NAME_DICT |-> counter]
        ELSE [raised |-> Ok,
              value |-> [template |-> "generate_header.METAL_BASE_HDR_TMPL",
                         base_address |-> hex(devlist[1].base_address),
                         dev_count |-> str(Len(devlist)),
                         vendor |-> vendor,
                         device |-> device,
                         cap_device |-> upper(device),
                         register_offsets |-> offsets.value,
                         interrupts |-> interrupts.value],
              NAME_DICT |-> offsets.NAME_DICT]

\* generate_base_hdr(vendor, device, devlist), started on NAME_DICT = counter:
\* the values substituted into METAL_BASE_HDR_TMPL
generate_base_hdr(vendor, device, devlist, counter) ==
    LET interrupts == generate_interrupt_defines(devlist, device)
        offsets == generate_offsets(device, devlist, counter)
    IN  IF interrupts.raised # Ok
        THEN [raised |-> interrupts.raised, value |-> None,
              NAME_DICT |-> counter]
        ELSE [raised |-> Ok,
              value |-> [template |-> "generate_header.METAL_BASE_HDR_TMPL",
                         base_address |->
                             join(<<",", " ">>,
                                  [i \in 1..Len(devlist) |->
                                      hex(devlist[i].base_address)]),
                         dev_count |-> str(Len(devlist)),
                         vendor |-> vendor,
                         device |-> device,
                         cap_device |-> upper(device),
                         register_offsets |-> offsets.value,
                         interrupts |-> interrupts.value],
              NAME_DICT |-> offsets.NAME_DICT]

----------------------------------------------------------------------------
(* generate_drivers.py: the queries over parsed JSON                       *)

RECURSIVE match_here(_, _)
RECURSIVE match_star(_, _, _)
\* the regular expression re matches a prefix of s. The expressions of the
\* scripts are literal characters, '.' and '*'.
match_here(re, s) ==
    IF re = <<>> THEN TRUE
    ELSE IF Len(re) >= 2 /\ re[2] = "*"
         THEN match_star(re[1], Tail(Tail(re)), s)
    ELSE /\ s # <<>>
         /\ (re[1] = "." \/ re[1] = s[1])
         /\ match_here(Tail(re), Tail(s))

match_star(c, re, s) ==
    \/ match_here(re, s)
    \/ /\ s # <<>>
       /\ (c = "." \/ c = s[1])
       /\ match_star(c, re, Tail(s))

\* regex.search(s): a match that starts at any character of s
re_search(regex, s) ==
    \E i \in 1..(Len(s) + 1) : match_here(regex, SubSeq(s, i, Len(s)))

\* regex.match(s): a match that starts at the first character of s
re_match(regex, s) == match_here(regex, s)

\* the test of search_json_component on a dict: a key, or a value that is a
\* string, matches
component_match(js_obj, regex) ==
    \E i \in 1..Len(js_obj.keys) :
        \/ re_match(regex, js_obj.keys[i])
        \/ isstr(js_obj.vals[i]) /\ re_match(regex, js_obj.vals[i].s)

RECURSIVE search_json_component_unpruned(_, _)
RECURSIVE search_json_components_unpruned(_, _)
search_json_components_unpruned(seq, regex) ==
    IF seq = <<>> THEN <<>>
    ELSE search_json_component_unpruned(Head(seq), regex)
             \o search_json_components_unpruned(Tail(seq), regex)

\* search_json_component, were the values of a matching dict searched too
search_json_component_unpruned(js_obj, regex) ==
    IF islist(js_obj) THEN search_json_components_unpruned(js_obj.items, regex)
    ELSE IF isdict(js_obj)
    THEN (IF component_match(js_obj, regex) THEN <<js_obj>> ELSE <<>>)
             \o search_json_components_unpruned(js_obj.vals, regex)
    ELSE <<>>

RECURSIVE search_json_component(_, _)
RECURSIVE search_json_components(_, _)
search_json_components(seq, regex) ==
    IF seq = <<>> THEN <<>>
    ELSE search_json_component(Head(seq), regex)
             \o search_json_components(Tail(seq), regex)

\* generate_drivers.search_json_component(js_obj, regex), drawn to its end
search_json_component(js_obj, regex) ==
    IF islist(js_obj) THEN search_json_components(js_obj.items, regex)
    ELSE IF isdict(js_obj)
    THEN IF component_match(js_obj, regex) THEN <<js_obj>>
         ELSE search_json_components(js_obj.vals, regex)
    ELSE <<>>

InvalidParsedJSON == Raise("InvalidParsedJSON", "object not dict or list", None)

\* generate_drivers.find_component(js_obj, regex_str), drawn to its end
find_component(js_obj, regex_str) ==
    IF isdict(js_obj) \/ islist(js_obj)
    THEN [raised |-> Ok, value |-> search_json_component(js_obj, regex_str)]
    ELSE [raised |-> InvalidParsedJSON, value |-> <<>>]

\* search_json_field.check_match(value)
check_match(value, regex) ==
    IF isstr(value) THEN re_match(regex, value.s)
    ELSE IF islist(value)
    THEN \E i \in 1..Len(value.items) :
             isstr(value.items[i]) /\ re_match(regex, value.items[i].s)
    ELSE FALSE

RECURSIVE search_json_field(_, _, _)
RECURSIVE search_json_fields(_, _, _)
search_json_fields(seq, field, regex) ==
    IF seq = <<>> THEN <<>>
    ELSE search_json_field(Head(seq), field, regex)
             \o search_json_fields(Tail(seq), field, regex)

\* generate_drivers.search_json_field(js_obj, field, regex), drawn to its end
search_json_field(js_obj, field, regex) ==
    IF isdict(js_obj)
    THEN IF haskey(js_obj, field) /\ check_match(get(js_obj, field), regex)
         THEN <<js_obj>>
         ELSE search_json_fields(js_obj.vals, field, regex)
    ELSE IF islist(js_obj) THEN search_json_fields(js_obj.items, field, regex)
    ELSE <<>>

\* generate_drivers.find_json_field_name(js_obj, field, regex_str), drawn to
\* its end
find_json_field_name(js_obj, field, regex_str) ==
    IF isdict(js_obj) \/ islist(js_obj)
    THEN [raised |-> Ok, value |-> search_json_field(js_obj, field, regex_str)]
    ELSE [raised |-> InvalidParsedJSON, value |-> <<>>]

----------------------------------------------------------------------------
(* generate_drivers.py: the templates. A rendered text is the record of    *)
(* the values substituted into its template; a generated line is the       *)
(* record of the values formatted into it.                                 *)

\* generate_drivers.Register(name, offset, width)
DriverRegister(name, offset, width) ==
    [name |-> name, offset |-> offset, width |-> width]

RECURSIVE read_write_lines(_, _, _)
\* for each register its read line, then its write line
read_write_lines(function, device, reg_list) ==
    IF reg_list = <<>> THEN <<>>
    ELSE << [line |-> function, func |-> "read_func", device |-> device,
             reg_name |-> lower(Head(reg_list).name),
             cap_name |-> upper(Head(reg_list).name),
             size |-> Head(reg_list).width],
            [line |-> function, func |-> "write_func", device |-> device,
             reg_name |-> lower(Head(reg_list).name),
             cap_name |-> upper(Head(reg_list).name),
             size |-> Head(reg_list).width] >>
         \o read_write_lines(function, device, Tail(reg_list))

RECURSIVE write_read_lines(_, _, _)
\* the loop shared by the generators: for each register its write line, then
\* its read line
write_read_lines(function, device, reg_list) ==
    IF reg_list = <<>> THEN <<>>
    ELSE << [line |-> function, func |-> "write_func", device |-> device,
             reg_name |-> lower(Head(reg_list).name),
             cap_name |-> upper(Head(reg_list).name),
             size |-> Head(reg_list).width],
            [line |-> function, func |-> "read_func", device |-> device,
             reg_name |-> lower(Head(reg_list).name),
             cap_name |-> upper(Head(reg_list).name),
             size |-> Head(reg_list).width] >>
         \o write_read_lines(function, device, Tail(reg_list))

generate_vtable_declarations(device_name, reg_list) ==
    write_read_lines("generate_vtable_declarations", device_name, reg_list)

generate_protos(device_name, reg_list) ==
    write_read_lines("generate_protos", device_name, reg_list)
        \o <<[line |-> "generate_protos", func |-> "get_device",
              device |-> device_name]>>

generate_def_vtable(device, reg_list) ==
    <<[line |-> "generate_def_vtable", func |-> "head", device |-> device]>>
        \o write_read_lines("generate_def_vtable", device, reg_list)

generate_base_functions(device, reg_list) ==
    write_read_lines("generate_base_functions", device, reg_list)

generate_metal_function(device, reg_list) ==
    write_read_lines("generate_metal_function", device, reg_list)

\* generate_drivers.generate_offsets(device_name, reg_list)
drivers_generate_offsets(device_name, reg_list) ==
    [i \in 1..Len(reg_list) |->
        Define(<<"M","E","T","A","L","_">> \o upper(device_name) \o <<"_">>
                   \o upper(reg_list[i].name),
               reg_list[i].offset)]

\* generate_drivers.generate_base_hdr(vendor, device, base_address, reglist)
drivers_generate_base_hdr(vendor, device, base_address, reglist) ==
    [template |-> "generate_drivers.METAL_BASE_HDR_TMPL",
     base_address |-> hex(base_address),
     vendor |-> vendor,
     device |-> device,
     cap_device |-> upper(device),
     register_offsets |-> drivers_generate_offsets(device, reglist)]

\* generate_metal_dev_hdr(vendor, device, index, base_address, reglist)
generate_metal_dev_hdr(vendor, device, index, base_address, reglist) ==
    [template |-> "generate_drivers.METAL_DEV_HDR_TMPL",
     vendor |-> vendor,
     device |-> device,
     cap_device |-> upper(device),
     index |-> str(index),
     base_address |-> hex(base_address),
     vtable |-> generate_vtable_declarations(device, reglist),
     protos |-> generate_protos(device, reglist)]

\* generate_metal_dev_drv(vendor, device, index, reglist)
generate_metal_dev_drv(vendor, device, index, reglist) ==
    [template |-> "generate_drivers.METAL_DEV_DRV_TMPL",
     vendor |-> vendor,
     device |-> device,
     cap_device |-> upper(device),
     index |-> str(index),
     offsets |-> drivers_generate_offsets(device, reglist),
     base_functions |-> generate_base_functions(device, reglist),
     metal_functions |-> generate_metal_function(device, reglist),
     def_vtable |-> generate_def_vtable(device, reglist)]

----------------------------------------------------------------------------
(* generate_drivers.py: what main reads from its two documents             *)

K_addressBlocks == <<"a","d","d","r","e","s","s","B","l","o","c","k","s">>
K_registers == <<"r","e","g","i","s","t","e","r","s">>
K_addressOffset == <<"a","d","d","r","e","s","s","O","f","f","s","e","t">>
T_OMMemoryRegion == <<"O","M","M","e","m","o","r","y","R","e","g","i","o","n">>

\* the exception of [i['addressBlocks'][0] for i in components], Ok when none
address_blocks_raises(components) ==
    IF \E i \in 1..Len(components) : ~haskey(components[i], K_addressBlocks)
    THEN KeyError
    ELSE IF \E i \in 1..Len(components) :
                get(components[i], K_addressBlocks).items = <<>>
    THEN IndexError
    ELSE Ok

\* f'Invalid register width {width}, for register {name}. ...'
InvalidRegisterWidth(width, name) ==
    Raise("Exception", "Invalid register width {width}, for register {name}",
          [width |-> width, name |-> name])

\* width not in (8, 16, 32, 64)
width_invalid(width) == width \notin {8, 16, 32, 64}

RECURSIVE driver_registers(_)
\* the loop of generate_drivers.main over regs
driver_registers(regs) ==
    IF regs = <<>> THEN [raised |-> Ok, value |-> <<>>]
    ELSE LET name == get(Head(regs), K_name).s
             offset == get(Head(regs), K_addressOffset).n \div 8
             width == get(Head(regs), K_size).n
         IN  IF width_invalid(width)
             THEN [raised |-> InvalidRegisterWidth(width, name), value |-> <<>>]
             ELSE LET rest == driver_registers(Tail(regs)) IN
                  [raised |-> rest.raised,
                   value |-> IF rest.raised = Ok
                             THEN <<DriverRegister(name, offset, width)>>
                                      \o rest.value
                             ELSE <<>>]

\* the first part of generate_drivers.main: reglist out of the DUH document
drivers_reglist(duh_info) ==
    LET components == find_component(duh_info, K_addressBlocks) IN
    IF components.raised # Ok
    THEN [raised |-> components.raised, value |-> <<>>]
    ELSE IF address_blocks_raises(components.value) # Ok
    THEN [raised |-> address_blocks_raises(components.value), value |-> <<>>]
    ELSE IF components.value = <<>>
    THEN [raised |-> IndexError, value |-> <<>>]
    ELSE driver_registers(
             get(get(components.value[1], K_addressBlocks).items[1],
                 K_registers).items)

\* devices_addr_enumerated of generate_drivers.main. The generator that the
\* first query returns is handed to the second, which draws it to its end:
\* it is the list of what it yields.
devices_addr_enumerated(object_model, device) ==
    LET regions ==
            find_json_field_name(object_model, K_types, T_OMMemoryRegion)
    IN  IF regions.raised # Ok
        THEN [raised |-> regions.raised, value |-> <<>>]
        ELSE [raised |-> Ok,
              value |-> enumerate(
                  find_json_field_name(L(regions.value), K_name,
                                       device \o <<".","*">>).value)]

----------------------------------------------------------------------------
(* om2files.py: its own copies of the queries, which return lists and      *)
(* yield a matching string of a list too                                   *)

RECURSIVE om2files_search_json_component(_, _)
RECURSIVE om2files_search_json_components(_, _)
om2files_search_json_components(seq, regex) ==
    IF seq = <<>> THEN <<>>
    ELSE om2files_search_json_component(Head(seq), regex)
             \o om2files_search_json_components(Tail(seq), regex)

\* om2files.search_json_component(js_obj, regex)
om2files_search_json_component(js_obj, regex) ==
    IF islist(js_obj) THEN om2files_search_json_components(js_obj.items, regex)
    ELSE IF isdict(js_obj)
    THEN IF component_match(js_obj, regex) THEN <<js_obj>>
         ELSE om2files_search_json_components(js_obj.vals, regex)
    ELSE IF isstr(js_obj) /\ re_match(regex, js_obj.s) THEN <<js_obj>>
    ELSE <<>>

RECURSIVE om2files_registers(_)
\* the loop of om2files.main over regs
om2files_registers(regs) ==
    IF regs = <<>> THEN <<>>
    ELSE <<DriverRegister(get(Head(regs), K_name).s,
                          get(Head(regs), K_addressOffset).n \div 8,
                          get(Head(regs), K_size).n)>>
             \o om2files_registers(Tail(regs))

\* the first part of om2files.main: reglist out of the DUH document
om2files_reglist(duh_info) ==
    LET components == om2files_search_json_component(duh_info, K_addressBlocks)
    IN  IF ~(isdict(duh_info) \/ islist(duh_info))
        THEN [raised |-> Raise("InvalidOM", "", None), value |-> <<>>]
        ELSE IF components = <<>> THEN [raised |-> IndexError, value |-> <<>>]
        ELSE IF isstr(components[1]) THEN [raised |-> TypeError, value |-> <<>>]
        ELSE IF ~haskey(components[1], K_addressBlocks)
             THEN [raised |-> KeyError, value |-> <<>>]
        ELSE IF get(components[1], K_addressBlocks).items = <<>>
             THEN [raised |-> IndexError, value |-> <<>>]
        ELSE [raised |-> Ok,
              value |-> om2files_registers(
                  get(get(components[1], K_addressBlocks).items[1],
                      K_registers).items)]

\* raise Exception('weird size')
WeirdSize == Raise("Exception", "weird size", None)

\* om2files.generate_vtable(device_name, reg_list)
om2files_generate_vtable(device_name, reg_list) ==
    IF \E i \in 1..Len(reg_list) : reg_list[i].width \notin {8, 16, 32, 64}
    THEN [raised |-> WeirdSize, value |-> <<>>]
    ELSE [raised |-> Ok,
          value |-> write_read_lines("generate_vtable", device_name, reg_list)]

\* Check if file exist before over-writing it
CHECK_EXISTENCE == TRUE

----------------------------------------------------------------------------
(* The data classes applied on their own: any sequence of calls of         *)
(* Register.make_register on the module-level cache.                       *)

N_CTRL == <<"C","T","R","L">>
G_G == <<"G">>

RegNames == {N_CTRL, reserved}
RegGroups == {<<>>, G_G}
RegOffsets == {0, 32}
RegWidths == {32, 7}

Idle ==
    /\ tool = "none"
    /\ args = None
    /\ pc = "none"
    /\ locals = None
    /\ fs = <<>>
    /\ fs0 = <<>>
    /\ raised = Ok
    /\ stderr = <<>>

InitReg ==
    /\ Idle
    /\ all_registers = <<>>
    /\ all_interrupts = <<>>
    /\ NAME_DICT = <<>>
    /\ call = None
    /\ ret = None
    /\ before = <<>>

MakeRegister ==
    \E name \in RegNames, offset \in RegOffsets,
       width \in RegWidths, group \in RegGroups :
        LET r == make_register(all_registers, name, offset, width, group) IN
        /\ call' = [fn |-> "make_register", name |-> name, offset |-> offset,
                    width |-> width, group |-> group]
        /\ before' = all_registers
        /\ ret' = [raised |-> r.raised, value |-> r.value]
        /\ all_registers' = r.all_registers
        /\ UNCHANGED <<tool, args, pc, all_interrupts, NAME_DICT, locals,
                       fs, fs0, raised, stderr>>

\* an entry of registerFields
RegisterField(name, group, base, size) ==
    D(<<K_description, K_bitRange>>,
      <<D(<<K_name, K_group>>, <<S(name), S(group)>>),
        D(<<K_base, K_size>>, <<I(base), I(size)>>)>>)

\* the registerFields a device may declare
FieldLists ==
    { <<RegisterField(reserved, <<>>, 0, 32), RegisterField(N_CTRL, <<>>, 0, 32),
        RegisterField(reserved, <<>>, 32, 7)>>,
      <<RegisterField(reserved, G_G, 0, 32), RegisterField(reserved, G_G, 0, 32)>>,
      <<RegisterField(reserved, <<>>, 32, 32), RegisterField(reserved, G_G, 0, 7)>> }

\* find_registers(object_model) on a device with one memory region
FindRegisters ==
    \E fields \in FieldLists :
        LET r == find_registers(
                     D(<<K_memoryRegions>>,
                       <<L(<<D(<<K_addressSets, K_registerMap>>,
                               <<L(<<D(<<K_base>>, <<I(0)>>)>>),
                                 D(<<K_registerFields>>, <<L(fields)>>)>>)>>)>>),
                     all_registers)
        IN
        /\ call' = [fn |-> "find_registers", fields |-> fields]
        /\ before' = all_registers
        /\ ret' = [raised |-> r.raised, value |-> r.value]
        /\ all_registers' = r.all_registers
        /\ UNCHANGED <<tool, args, pc, all_interrupts, NAME_DICT, locals,
                       fs, fs0, raised, stderr>>

NextReg == MakeRegister \/ FindRegisters

SpecReg == InitReg /\ [][NextReg]_vars

\* the call in progress is make_register on a key the cache already holds
\* for this very name and group
CachedCall ==
    /\ call # None
    /\ call.fn = "make_register"
    /\ call.name # reserved
    /\ register_key(call.name, call.group) \in DOMAIN before
    /\ before[register_key(call.name, call.group)].name = call.name
    /\ before[register_key(call.name, call.group)].group = call.group

CachedRegister == before[register_key(call.name, call.group)]

\* C2: a second make_register call with exactly the same four arguments
\* raises nothing, returns the cached register and leaves the cache as it was.
C2_Idempotent ==
    (/\ CachedCall
     /\ CachedRegister =
            Register(call.name, call.offset, call.width, call.group))
    => /\ ret.raised = Ok
       /\ ret.value = CachedRegister
       /\ all_registers = before

\* C3: a make_register call on a cached (name, group) fails if and only if
\* its offset or its width differs from the cached register's, and a failed
\* call leaves the cache as it was.
C3_ConflictIff ==
    CachedCall
    => /\ (ret.raised # Ok) <=>
              (\/ call.offset # CachedRegister.offset
               \/ call.width # CachedRegister.width)
       /\ (ret.raised # Ok => all_registers = before)

\* the register a registerFields entry describes
Described(aReg) ==
    Register(get(get(aReg, K_description), K_name).s,
             get(get(aReg, K_bitRange), K_base).n,
             get(get(aReg, K_bitRange), K_size).n,
             get(get(aReg, K_description), K_group).s)

\* C16: make_register never fails for the name 'reserved', whatever the
\* cache holds, and returns the register described; find_registers never
\* fails over a 'reserved' entry, and the list it returns holds every
\* 'reserved' register at the position of its entry.
C16_ReservedExempt ==
    /\ (call # None /\ call.fn = "make_register" /\ call.name = reserved)
       => /\ ret.raised = Ok
          /\ ret.value = Register(reserved, call.offset, call.width, call.group)
    /\ (call # None /\ call.fn = "find_registers")
       => /\ ret.raised # Ok
             => \E i \in 1..Len(call.fields) :
                    Described(call.fields[i]).name # reserved
          /\ ret.raised = Ok
             => /\ Len(ret.value) = Len(call.fields)
                /\ \A i \in 1..Len(call.fields) :
                       Described(call.fields[i]).name = reserved
                       => ret.value[i] = Described(call.fields[i])

\* find_registers has returned a 'reserved' register before and one after
\* another register, on a cache that held a 'reserved' register of another
\* offset and width under the same key
C16_Witness ==
    /\ call # None /\ call.fn = "find_registers"
    /\ ret.raised = Ok
    /\ Len(ret.value) = 3
    /\ ret.value[1].name = reserved /\ ret.value[3].name = reserved
    /\ ret.value[2].name # reserved
    /\ register_key(reserved, <<>>) \in DOMAIN before
    /\ before[register_key(reserved, <<>>)] = Register(reserved, 32, 32, <<>>)

----------------------------------------------------------------------------
(* The documents the runs are given                                        *)

K_components == <<"c","o","m","p","o","n","e","n","t","s">>
K_interrupts == <<"i","n","t","e","r","r","u","p","t","s">>
N_UART == <<"U","A","R","T">>
N_SPI == <<"S","P","I">>
N_STAT == <<"S","T","A","T">>
N_sifive == <<"s","i","f","i","v","e">>
N_anonymous == <<"t","x","@","0">>
N_rx == <<"r","x">>
N_CTRL_EN == <<"C","T","R","L","_","E","N">>

\* an entry of memoryRegions
MemoryRegion(name, bases, fields) ==
    D(<<K_types, K_name, K_addressSets, K_registerMap>>,
      <<L(<<S(T_OMMemoryRegion)>>),
        S(name),
        L([i \in 1..Len(bases) |-> D(<<K_base>>, <<I(bases[i])>>)]),
        D(<<K_registerFields>>, <<L(fields)>>)>>)

\* an interrupt of a device
InterruptNode(number, name) ==
    D(<<K_types, K_numberAtReceiver, K_name>>,
      <<L(<<S(T_OMInterrupt)>>), I(number), S(name)>>)

\* a device instance
DeviceNode(tag, regions, interrupts) ==
    D(<<K_types, K_memoryRegions, K_interrupts>>,
      <<L(<<S(tag)>>), L(regions), L(interrupts)>>)

\* the base address of the i-th instance of a document: 0x1000, 0x2000, ...
BaseOf(i) == 4096 * i

\* the shapes of device instance the documents are made of
DeviceKinds ==
    {"ctrl", "two address sets", "no address set", "width 7", "reserved",
     "no interrupt", "named interrupt", "repeated name", "other device"}

Device(kind, i) ==
    CASE kind = "ctrl" ->
           DeviceNode(T_OM \o N_UART,
               <<MemoryRegion(N_UART, <<BaseOf(i)>>,
                              <<RegisterField(N_CTRL, <<>>, 0, 32)>>)>>,
               <<InterruptNode(2 + i, N_anonymous)>>)
      [] kind = "two address sets" ->
           DeviceNode(T_OM \o N_UART,
               <<MemoryRegion(N_UART, <<BaseOf(i), BaseOf(i) + 256>>,
                              <<RegisterField(reserved, <<>>, 0, 32)>>)>>,
               <<InterruptNode(2 + i, N_anonymous)>>)
      [] kind = "no address set" ->
           DeviceNode(T_OM \o N_UART,
               <<MemoryRegion(N_UART, <<BaseOf(i)>>,
                              <<RegisterField(reserved, <<>>, 0, 32)>>),
                 MemoryRegion(N_UART, <<>>, <<>>)>>,
               <<InterruptNode(2 + i, N_anonymous)>>)
      [] kind = "width 7" ->
           DeviceNode(T_OM \o N_UART,
               <<MemoryRegion(N_UART, <<BaseOf(i)>>,
                              <<RegisterField(N_STAT \o str(i), G_G, 32, 7)>>)>>,
               <<InterruptNode(2 + i, N_anonymous)>>)
      [] kind = "reserved" ->
           DeviceNode(T_OM \o N_UART,
               <<MemoryRegion(N_UART, <<BaseOf(i)>>,
                              <<RegisterField(reserved, <<>>, 0, 32),
                                RegisterField(reserved, <<>>, 32, 8)>>)>>,
               <<InterruptNode(2 + i, N_anonymous)>>)
      [] kind = "no interrupt" ->
           DeviceNode(T_OM \o N_UART,
               <<MemoryRegion(N_UART, <<BaseOf(i)>>,
                              <<RegisterField(reserved, <<>>, 0, 32)>>)>>,
               <<>>)
      [] kind = "named interrupt" ->
           DeviceNode(T_OM \o N_UART,
               <<MemoryRegion(N_UART, <<BaseOf(i)>>,
                              <<RegisterField(reserved, <<>>, 0, 32)>>)>>,
               <<InterruptNode(7, N_rx),
                 InterruptNode(2 + i, N_anonymous),
                 D(<<K_types, K_numberAtReceiver>>,
                   <<L(<<S(T_OMInterrupt)>>), I(5 + i)>>),
                 InterruptNode(4 + i, N_anonymous)>>)
      [] kind = "repeated name" ->
           DeviceNode(T_OM \o N_UART,
               <<MemoryRegion(N_UART, <<BaseOf(i)>>,
                              <<RegisterField(N_CTRL_EN, N_CTRL, 0, 1),
                                RegisterField(reserved, <<>>, 1, 7),
                                RegisterField(N_CTRL_EN, <<>>, 8, 1)>>)>>,
               <<InterruptNode(2 + i, N_anonymous)>>)
      [] kind = "other device" ->
           DeviceNode(T_OM \o N_SPI,
               <<MemoryRegion(N_SPI, <<BaseOf(i)>>,
                              <<RegisterField(N_CTRL, <<>>, 0, 32)>>)>>,
               <<InterruptNode(2 + i, N_anonymous)>>)

\* the object model whose i-th instance has the shape kinds[i]
ObjectModel(kinds) ==
    D(<<K_components>>,
      <<L([i \in 1..Len(kinds) |-> Device(kinds[i], i)])>>)

\* the largest number of device instances of a document
MaxDevices == 2

KindLists == UNION {[1..n -> DeviceKinds] : n \in 0..MaxDevices}

\* an entry of registers of the DUH document
DuhRegister(name, addressOffset, size) ==
    D(<<K_name, K_addressOffset, K_size>>,
      <<S(name), I(addressOffset), I(size)>>)

\* a DUH document with one address block
Duh(registers) ==
    D(<<K_components>>,
      <<D(<<K_addressBlocks>>,
          <<L(<<D(<<K_registers>>, <<L(registers)>>)>>)>>)>>)

DuhDocuments ==
    { Duh(<<DuhRegister(N_CTRL, 0, 32), DuhRegister(N_STAT, 32, 8)>>),
      Duh(<<DuhRegister(N_CTRL, 0, 32), DuhRegister(N_STAT, 32, 7)>>),
      D(<<K_components>>, <<L(<<>>)>>) }

----------------------------------------------------------------------------
(* The file system                                                         *)

NoFile == [k |-> "none"]
Directory == [k |-> "directory"]
\* what a file that was there before the run holds
OldText == [template |-> "an earlier text"]

\* the directory of the headers: bsp_dir/bsp_{device}, or metal_dir/device
P_dir == <<"directory", 0>>
\* {vendor}_{device}.h
P_base == <<"base header", 0>>
\* {vendor}_{device}.c
P_driver == <<"driver source", 0>>
\* {vendor}_{device}{index}.h
P_header(index) == <<"header", index>>

Paths == {P_dir, P_base, P_driver} \cup {P_header(i) : i \in 0..(MaxDevices - 1)}

\* the file systems a run may start in: a file of the directory is there
\* only if the directory is
FileSystems(files) ==
    { f \in [Paths -> {NoFile, Directory, OldText}] :
        /\ f[P_dir] \in {NoFile, Directory}
        /\ \A p \in Paths \ {P_dir} : f[p] \in {NoFile, OldText}
        /\ \A p \in Paths \ files : f[p] = NoFile
        /\ \A p \in Paths \ {P_dir, P_driver} :
               f[p] # NoFile => f[P_dir] = Directory }

exists(path) == fs[path] # NoFile

\* path.write_text(text)
write_text(path, text) == [fs EXCEPT ![path] = text]

\* print(f"{str(path)} exists, not creating.", file=sys.stderr)
NotCreating(path) == [message |-> "exists, not creating.", path |-> path]

----------------------------------------------------------------------------
(* The runs of the three scripts. The caches and the counter of            *)
(* generate_header are those of a fresh process.                           *)

Fresh ==
    /\ all_registers = <<>>
    /\ all_interrupts = <<>>
    /\ NAME_DICT = <<>>
    /\ raised = Ok
    /\ stderr = <<>>
    /\ call = None
    /\ ret = None
    /\ before = <<>>
    /\ fs0 = fs

InitHeader ==
    /\ tool = "generate_header"
    /\ \E kinds \in KindLists, overwrite_existing \in BOOLEAN :
           args = [object_model |-> ObjectModel(kinds), duh_info |-> None,
                   vendor |-> N_sifive, device |-> N_UART,
                   overwrite_existing |-> overwrite_existing,
                   base_header_only |-> TRUE]
    /\ fs \in FileSystems({P_dir, P_base})
    /\ locals = [devices_om |-> <<>>, devlist |-> <<>>]
    /\ pc = "start"
    /\ Fresh

DriverKinds == {"ctrl", "no address set", "other device"}

DriverKindLists == UNION {[1..n -> DriverKinds] : n \in 0..MaxDevices}

InitDrivers ==
    /\ tool = "generate_drivers"
    /\ \E kinds \in DriverKindLists, duh_info \in DuhDocuments,
          overwrite_existing \in BOOLEAN, base_header_only \in BOOLEAN :
           args = [object_model |-> ObjectModel(kinds), duh_info |-> duh_info,
                   vendor |-> N_sifive, device |-> N_UART,
                   overwrite_existing |-> overwrite_existing,
                   base_header_only |-> base_header_only]
    /\ fs \in FileSystems(Paths)
    /\ locals = [reglist |-> <<>>, devices |-> <<>>, index |-> 0, base |-> 0]
    /\ pc = "start"
    /\ Fresh

InitOm2files ==
    /\ tool = "om2files"
    /\ \E kinds \in DriverKindLists, duh_info \in DuhDocuments :
           args = [object_model |-> ObjectModel(kinds), duh_info |-> duh_info,
                   vendor |-> N_sifive, device |-> N_UART,
                   overwrite_existing |-> FALSE,
                   base_header_only |-> FALSE]
    /\ fs \in FileSystems(Paths)
    /\ locals = [reglist |-> <<>>, devices |-> <<>>, index |-> 0, base |-> 0]
    /\ pc = "start"
    /\ Fresh

Init == InitHeader \/ InitDrivers \/ InitOm2files

\* the run ends with the exception e
Abort(e) ==
    /\ pc' = "failed"
    /\ raised' = e

(* generate_header.main *)

\* devices_om = find_devices(object_model, device)
H_FindDevices ==
    /\ tool = "generate_header" /\ pc = "start"
    /\ LET r == find_devices(args.object_model, args.device) IN
       IF r.raised # Ok
       THEN Abort(r.raised) /\ UNCHANGED locals
       ELSE /\ locals' = [locals EXCEPT !.devices_om = r.value]
            /\ pc' = "devices"
            /\ UNCHANGED raised
    /\ UNCHANGED <<tool, args, all_registers, all_interrupts, NAME_DICT,
                   fs, fs0, stderr, call, ret, before>>

\* one pass of: for index, dev_om in devices_om
H_Device ==
    /\ tool = "generate_header" /\ pc = "devices"
    /\ Len(locals.devlist) < Len(locals.devices_om)
    /\ LET next == locals.devices_om[Len(locals.devlist) + 1]
           r == device_base(args.device, next[1], next[2],
                            all_registers, all_interrupts)
       IN  /\ all_registers' = r.all_registers
           /\ all_interrupts' = r.all_interrupts
           /\ IF r.raised # Ok
              THEN Abort(r.raised) /\ UNCHANGED locals
              ELSE /\ locals' = [locals EXCEPT
                                    !.devlist = Append(locals.devlist, r.value)]
                   /\ UNCHANGED <<pc, raised>>
    /\ UNCHANGED <<tool, args, NAME_DICT, fs, fs0, stderr, call, ret, before>>

\* base_hdr_path.mkdir(exist_ok=True, parents=True)
H_Mkdir ==
    /\ tool = "generate_header" /\ pc = "devices"
    /\ Len(locals.devlist) = Len(locals.devices_om)
    /\ fs' = write_text(P_dir, Directory)
    /\ pc' = "base header"
    /\ UNCHANGED <<tool, args, all_registers, all_interrupts, NAME_DICT,
                   locals, fs0, raised, stderr, call, ret, before>>

\* overwrite_existing or not base_header_file_path.exists()
header_writes_base == args.overwrite_existing \/ ~exists(P_base)

\* base_header_file_path.write_text(generate_base_hdr(...))
H_WriteBaseHeader ==
    /\ tool = "generate_header" /\ pc = "base header"
    /\ header_writes_base
    /\ LET r == generate_base_hdr(args.vendor, args.device, locals.devlist,
                                  NAME_DICT)
       IN  /\ NAME_DICT' = r.NAME_DICT
           /\ IF r.raised # Ok
              THEN Abort(r.raised) /\ UNCHANGED fs
              ELSE /\ fs' = write_text(P_base, r.value)
                   /\ pc' = "report"
                   /\ UNCHANGED raised
    /\ UNCHANGED <<tool, args, all_registers, all_interrupts, locals, fs0,
                   stderr, call, ret, before>>

\* print(f"{str(base_header_file_path)} exists, not creating.")
H_KeepBaseHeader ==
    /\ tool = "generate_header" /\ pc = "base header"
    /\ ~header_writes_base
    /\ stderr' = Append(stderr, NotCreating(P_base))
    /\ pc' = "report"
    /\ UNCHANGED <<tool, args, all_registers, all_interrupts, NAME_DICT,
                   locals, fs, fs0, raised, call, ret, before>>

\* the reports, were a name counted once reported too
Repeated_once(counter) ==
    LET many == SelectSeq(counter, LAMBDA item : item.count > 0) IN
    [i \in 1..Len(many) |->
        [message |-> "Variable repeated", name |-> many[i].key]]

\* print(f'Variable {k} repeated'), for the names counted more than once
Repeated(counter) ==
    LET many == SelectSeq(counter, LAMBDA item : item.count > 1) IN
    [i \in 1..Len(many) |->
        [message |-> "Variable repeated", name |-> many[i].key]]

\* the loop over NAME_DICT.items(), and return 0
H_Report ==
    /\ tool = "generate_header" /\ pc = "report"
    /\ stderr' = stderr \o Repeated(NAME_DICT)
    /\ pc' = "done"
    /\ UNCHANGED <<tool, args, all_registers, all_interrupts, NAME_DICT,
                   locals, fs, fs0, raised, call, ret, before>>

\* main() called once more in the process that has just run it, on the same
\* arguments and on the files the first run left: Register.all_registers,
\* Interrupt.all_interrupts and NAME_DICT are module-level and main does not
\* reset them. ret keeps the outcome of the first run.
H_Again ==
    /\ tool = "generate_header" /\ pc \in {"done", "failed"}
    /\ call = None
    /\ call' = [fn |-> "main", run |-> 2]
    /\ ret' = [pc |-> pc, raised |-> raised, stderr |-> stderr, fs |-> fs]
    /\ pc' = "start"
    /\ raised' = Ok
    /\ stderr' = <<>>
    /\ locals' = [devices_om |-> <<>>, devlist |-> <<>>]
    /\ fs0' = fs
    /\ UNCHANGED <<tool, args, all_registers, all_interrupts, NAME_DICT,
                   fs, before>>

(* generate_drivers.main *)

\* the register loop over the DUH document
D_Registers ==
    /\ tool = "generate_drivers" /\ pc = "start"
    /\ LET r == drivers_reglist(args.duh_info) IN
       IF r.raised # Ok
       THEN Abort(r.raised) /\ UNCHANGED locals
       ELSE /\ locals' = [locals EXCEPT !.reglist = r.value]
            /\ pc' = "devices"
            /\ UNCHANGED raised
    /\ UNCHANGED <<tool, args, all_registers, all_interrupts, NAME_DICT,
                   fs, fs0, stderr, call, ret, before>>

\* devices_addr_enumerated = list(enumerate(devices_addr))
D_Devices ==
    /\ tool = "generate_drivers" /\ pc = "devices"
    /\ LET r == devices_addr_enumerated(args.object_model, args.device) IN
       IF r.raised # Ok
       THEN Abort(r.raised) /\ UNCHANGED locals
       ELSE /\ locals' = [locals EXCEPT !.devices = r.value]
            /\ pc' = "mkdir"
            /\ UNCHANGED raised
    /\ UNCHANGED <<tool, args, all_registers, all_interrupts, NAME_DICT,
                   fs, fs0, stderr, call, ret, before>>

\* m_hdr_path.mkdir(exist_ok=True, parents=True)
D_Mkdir ==
    /\ tool = "generate_drivers" /\ pc = "mkdir"
    /\ fs' = write_text(P_dir, Directory)
    /\ pc' = "loop"
    /\ UNCHANGED <<tool, args, all_registers, all_interrupts, NAME_DICT,
                   locals, fs0, raised, stderr, call, ret, before>>

\* where a pass of the loop for this index starts, and where it goes on
\* after the base header
drivers_first(index) ==
    IF index = 0
    THEN IF ~args.base_header_only THEN "driver source" ELSE "base header"
    ELSE IF ~args.base_header_only THEN "header" ELSE "loop"

\* for index, om in devices_addr_enumerated: base = om['addressSets'][0]['base']
D_Loop ==
    /\ tool = "generate_drivers" /\ pc = "loop"
    /\ locals.index < Len(locals.devices)
    /\ LET om == locals.devices[locals.index + 1][2] IN
       IF get(om, K_addressSets).items = <<>>
       THEN Abort(IndexError) /\ UNCHANGED locals
       ELSE /\ locals' =
                   [locals EXCEPT
                       !.base = get(get(om, K_addressSets).items[1], K_base).n,
                       !.index = IF drivers_first(locals.index) = "loop"
                                 THEN locals.index + 1 ELSE locals.index]
            /\ pc' = drivers_first(locals.index)
            /\ UNCHANGED raised
    /\ UNCHANGED <<tool, args, all_registers, all_interrupts, NAME_DICT,
                   fs, fs0, stderr, call, ret, before>>

\* the loop is over
D_Return ==
    /\ tool = "generate_drivers" /\ pc = "loop"
    /\ locals.index = Len(locals.devices)
    /\ pc' = "done"
    /\ UNCHANGED <<tool, args, all_registers, all_interrupts, NAME_DICT,
                   locals, fs, fs0, raised, stderr, call, ret, before>>

\* driver_file_path.exists() or overwrite_existing
drivers_writes_driver == exists(P_driver) \/ args.overwrite_existing

D_WriteDriver ==
    /\ tool = "generate_drivers" /\ pc = "driver source"
    /\ drivers_writes_driver
    /\ fs' = write_text(P_driver,
                 generate_metal_dev_drv(args.vendor, args.device,
                                        locals.index, locals.reglist))
    /\ pc' = "base header"
    /\ UNCHANGED <<tool, args, all_registers, all_interrupts, NAME_DICT,
                   locals, fs0, raised, stderr, call, ret, before>>

D_KeepDriver ==
    /\ tool = "generate_drivers" /\ pc = "driver source"
    /\ ~drivers_writes_driver
    /\ stderr' = Append(stderr, NotCreating(P_driver))
    /\ pc' = "base header"
    /\ UNCHANGED <<tool, args, all_registers, all_interrupts, NAME_DICT,
                   locals, fs, fs0, raised, call, ret, before>>

\* not base_header_path.exists() and overwrite_existing
drivers_writes_base == ~exists(P_base) /\ args.overwrite_existing

\* after the base header: the header of the instance, or the next pass
drivers_after_base == IF ~args.base_header_only THEN "header" ELSE "loop"

D_WriteBaseHeader ==
    /\ tool = "generate_drivers" /\ pc = "base header"
    /\ drivers_writes_base
    /\ fs' = write_text(P_base,
                 drivers_generate_base_hdr(args.vendor, args.device,
                                           locals.base, locals.reglist))
    /\ pc' = drivers_after_base
    /\ locals' = [locals EXCEPT !.index = IF drivers_after_base = "loop"
                                          THEN @ + 1 ELSE @]
    /\ UNCHANGED <<tool, args, all_registers, all_interrupts, NAME_DICT,
                   fs0, raised, stderr, call, ret, before>>

D_KeepBaseHeader ==
    /\ tool = "generate_drivers" /\ pc = "base header"
    /\ ~drivers_writes_base
    /\ stderr' = Append(stderr, NotCreating(P_base))
    /\ pc' = drivers_after_base
    /\ locals' = [locals EXCEPT !.index = IF drivers_after_base = "loop"
                                          THEN @ + 1 ELSE @]
    /\ UNCHANGED <<tool, args, all_registers, all_interrupts, NAME_DICT,
                   fs, fs0, raised, call, ret, before>>

\* not base_header_only and not header_file_path.exists() or overwrite_existing
drivers_writes_header ==
    (~args.base_header_only /\ ~exists(P_header(locals.index)))
        \/ args.overwrite_existing

D_WriteHeader ==
    /\ tool = "generate_drivers" /\ pc = "header"
    /\ drivers_writes_header
    /\ fs' = write_text(P_header(locals.index),
                 generate_metal_dev_hdr(args.vendor, args.device, locals.index,
                                        locals.base, locals.reglist))
    /\ pc' = "loop"
    /\ locals' = [locals EXCEPT !.index = @ + 1]
    /\ UNCHANGED <<tool, args, all_registers, all_interrupts, NAME_DICT,
                   fs0, raised, stderr, call, ret, before>>

D_KeepHeader ==
    /\ tool = "generate_drivers" /\ pc = "header"
    /\ ~drivers_writes_header
    /\ stderr' = Append(stderr, NotCreating(P_header(locals.index)))
    /\ pc' = "loop"
    /\ locals' = [locals EXCEPT !.index = @ + 1]
    /\ UNCHANGED <<tool, args, all_registers, all_interrupts, NAME_DICT,
                   fs, fs0, raised, call, ret, before>>

(* om2files.main *)

\* the register loop over the DUH document
O_Registers ==
    /\ tool = "om2files" /\ pc = "start"
    /\ LET r == om2files_reglist(args.duh_info) IN
       IF r.raised # Ok
       THEN Abort(r.raised) /\ UNCHANGED locals
       ELSE /\ locals' = [locals EXCEPT !.reglist = r.value]
            /\ pc' = "devices"
            /\ UNCHANGED raised
    /\ UNCHANGED <<tool, args, all_registers, all_interrupts, NAME_DICT,
                   fs, fs0, stderr, call, ret, before>>

\* devices_enumerated = list(enumerate(devices))
O_Devices ==
    /\ tool = "om2files" /\ pc = "devices"
    /\ LET r == devices_addr_enumerated(args.object_model, args.device) IN
       IF r.raised # Ok
       THEN Abort(r.raised) /\ UNCHANGED locals
       ELSE /\ locals' = [locals EXCEPT !.devices = r.value]
            /\ pc' = "mkdir"
            /\ UNCHANGED raised
    /\ UNCHANGED <<tool, args, all_registers, all_interrupts, NAME_DICT,
                   fs, fs0, stderr, call, ret, before>>

\* if not m_hdr_path.exists(): m_hdr_path.mkdir()
O_Mkdir ==
    /\ tool = "om2files" /\ pc = "mkdir"
    /\ fs' = IF ~exists(P_dir) THEN write_text(P_dir, Directory) ELSE fs
    /\ pc' = "loop"
    /\ UNCHANGED <<tool, args, all_registers, all_interrupts, NAME_DICT,
                   locals, fs0, raised, stderr, call, ret, before>>

\* not path.exists() and not CHECK_EXISTENCE
om2files_writes(path) == ~exists(path) /\ ~CHECK_EXISTENCE

\* the text om2files would write to path, or the line it prints instead
om2files_file(files, path, text) ==
    IF om2files_writes(path)
    THEN [fs |-> [files.fs EXCEPT ![path] = text], stderr |-> files.stderr]
    ELSE [fs |-> files.fs, stderr |-> Append(files.stderr, NotCreating(path))]

\* the first pass of the loop, which ends in sys.exit(0)
O_First ==
    /\ tool = "om2files" /\ pc = "loop"
    /\ locals.devices # <<>>
    /\ LET om == locals.devices[1][2] IN
       IF get(om, K_addressSets).items = <<>>
       THEN Abort(IndexError) /\ UNCHANGED <<fs, stderr, locals>>
       ELSE LET base == get(get(om, K_addressSets).items[1], K_base).n
                driver == om2files_file([fs |-> fs, stderr |-> stderr],
                              P_driver,
                              generate_metal_dev_drv(args.vendor, args.device,
                                                     0, locals.reglist))
                header == om2files_file(driver, P_header(0),
                              generate_metal_dev_hdr(args.vendor, args.device,
                                                     0, base, locals.reglist))
            IN  /\ fs' = header.fs
                /\ stderr' = header.stderr
                /\ locals' = [locals EXCEPT !.base = base]
                /\ pc' = "done"
                /\ UNCHANGED raised
    /\ UNCHANGED <<tool, args, all_registers, all_interrupts, NAME_DICT,
                   fs0, call, ret, before>>

\* no device: the loop has no pass
O_Return ==
    /\ tool = "om2files" /\ pc = "loop"
    /\ locals.devices = <<>>
    /\ pc' = "done"
    /\ UNCHANGED <<tool, args, all_registers, all_interrupts, NAME_DICT,
                   locals, fs, fs0, raised, stderr, call, ret, before>>

Next ==
    \/ H_FindDevices \/ H_Device \/ H_Mkdir
    \/ H_WriteBaseHeader \/ H_KeepBaseHeader \/ H_Report \/ H_Again
    \/ D_Registers \/ D_Devices \/ D_Mkdir \/ D_Loop \/ D_Return
    \/ D_WriteDriver \/ D_KeepDriver \/ D_WriteBaseHeader \/ D_KeepBaseHeader
    \/ D_WriteHeader \/ D_KeepHeader
    \/ O_Registers \/ O_Devices \/ O_Mkdir \/ O_First \/ O_Return

Spec == Init /\ [][Next]_vars

----------------------------------------------------------------------------
(* Claims about the runs                                                   *)

Terminated == pc \in {"done", "failed"}

S_2 == <<"2">>
S_BASES == <<"0","x","1","0","0","0",","," ","0","x","2","0","0","0">>

\* C1: for the object model of two UART instances at 0x1000 and 0x2000, each
\* with register CTRL at bit offset 0 of width 32, generate_header.main ends
\* without error, and the base header it renders has COUNT 2 and BASES
\* {0x1000, 0x2000}.
C1_EndToEnd ==
    (/\ tool = "generate_header"
     /\ args.object_model = ObjectModel(<<"ctrl", "ctrl">>)
     /\ Terminated)
    => /\ pc = "done"
       /\ raised = Ok
       /\ (args.overwrite_existing \/ fs0[P_base] = NoFile)
          => /\ fs[P_base].dev_count = S_2
             /\ fs[P_base].base_address = S_BASES

\* the registers a run has extracted so far
Extracted ==
    IF tool = "generate_header"
    THEN {r \in UNION {{d.registers[i] : i \in 1..Len(d.registers)} :
                          d \in {locals.devlist[n] :
                                    n \in 1..Len(locals.devlist)}} : TRUE}
    ELSE {locals.reglist[i] : i \in 1..Len(locals.reglist)}

\* C4: in generate_drivers.main and in generate_header.main alike, a register
\* is extracted only if its width is 8, 16, 32 or 64, a register of any other
\* width ends the run with an error that names it, and no register of such a
\* width is refused for its width.
C4_WidthValidated ==
    tool \in {"generate_drivers", "generate_header"}
    => /\ \A r \in Extracted : r.width \in {8, 16, 32, 64}
       /\ raised.message = InvalidRegisterWidth(0, <<>>).message
          => raised.values.width \notin {8, 16, 32, 64}

\* the device instances find_devices matches
Matched == find_devices(args.object_model, args.device).value

\* a memory region of a matched device instance declares no address set, or
\* more than one
UnsupportedRegion ==
    \E n \in 1..Len(Matched) :
        LET regions == get(Matched[n][2], K_memoryRegions).items IN
        \E m \in 1..Len(regions) : Len(get(regions[m], K_addressSets).items) # 1

\* C5: when a memory region of a matched device instance declares a number
\* of address sets other than one, generate_header.main never gets to create
\* the directory or to write the header: no file and no directory is
\* created, written or modified, and the run can only end with an error.
C5_NoPartialOutput ==
    (tool = "generate_header" /\ UnsupportedRegion)
    => /\ fs = fs0
       /\ pc \in {"start", "devices", "failed"}
       /\ pc = "failed" => raised # Ok

\* a run that aborts on the second device instance, whose region declares two
\* address sets, after a first instance that was accepted
C5_Witness ==
    /\ tool = "generate_header"
    /\ UnsupportedRegion
    /\ pc = "failed"
    /\ raised = MultipleAddressSets
    /\ Len(locals.devlist) = 1
    /\ fs0[P_base] = OldText

\* C6: without the overwrite flag no run of any of the three scripts changes
\* a file that was there before the run.
C6_KeepsExisting ==
    ~args.overwrite_existing
    => \A p \in Paths \ {P_dir} : fs0[p] # NoFile => fs[p] = fs0[p]

\* the base address of the device instance of index i of generate_drivers
DriverBase(i) ==
    get(get(locals.devices[i + 1][2], K_addressSets).items[1], K_base).n

\* C7: with the overwrite flag, after a run that ended without error each
\* file the mode produces holds the newly rendered text, whether it was there
\* before or not: the base header, and in full mode the driver source and
\* the header of each instance.
C7_OverwriteReplaces ==
    (args.overwrite_existing /\ pc = "done")
    => /\ tool = "generate_header"
          => fs[P_base] = generate_base_hdr(args.vendor, args.device,
                                            locals.devlist, <<>>).value
       /\ (tool = "generate_drivers" /\ locals.devices # <<>>)
          => /\ fs[P_base] =
                    drivers_generate_base_hdr(args.vendor, args.device,
                                              DriverBase(0), locals.reglist)
             /\ ~args.base_header_only
                => /\ fs[P_driver] =
                          generate_metal_dev_drv(args.vendor, args.device, 0,
                                                 locals.reglist)
                   /\ \A i \in 0..(Len(locals.devices) - 1) :
                          fs[P_header(i)] =
                              generate_metal_dev_hdr(args.vendor, args.device,
                                  i, DriverBase(i), locals.reglist)

\* the call of main in progress is the second of its process
SecondRun == call # None /\ call.fn = "main"

\* C13: a run of generate_header.main starts on an empty register cache, an
\* empty interrupt cache and an empty macro-name counter, and a second run
\* in the same process ends as the same run does alone: with the same
\* status and exception and, when it overwrites, the same files and the
\* same diagnostics as the first run of these arguments had.
C13_FreshPerRun ==
    /\ (tool = "generate_header" /\ pc = "start")
       => /\ all_registers = <<>>
          /\ all_interrupts = <<>>
          /\ NAME_DICT = <<>>
    /\ (SecondRun /\ Terminated)
       => /\ pc = ret.pc
          /\ raised = ret.raised
          /\ args.overwrite_existing
             => fs = ret.fs /\ stderr = ret.stderr

\* the interrupt nodes of the device instance that main has made the n-th
\* entry of devlist out of
InterruptNodes(n) == get(locals.devices_om[n][2], K_interrupts).items

\* the interrupt node has no name, or a name with an '@' in it
Anonymous(node) ==
    \/ ~haskey(node, K_name)
    \/ \E i \in 1..Len(get(node, K_name).s) : get(node, K_name).s[i] = "@"

\* the documents whose instances are accepted but for their interrupts
AnonymousOrAgreed ==
    {ObjectModel(kinds) :
        kinds \in UNION {[1..n -> {"reserved", "named interrupt"}] :
                            n \in 1..MaxDevices}}

\* the run has rendered the base header: the file holds its text
Rendered == pc \in {"report", "done"} /\ fs[P_base] \notin {NoFile, OldText}

\* C15: an interrupt whose name holds '@', or that has no name, is never
\* cached under a name and makes no run fail; its number takes part in the
\* minimum that is the base interrupt of its device, it is counted in
\* INTERRUPT_COUNT, and no INTERRUPT_OFFSET macro is rendered for it.
C15_AnonymousInterrupts ==
    tool = "generate_header"
    => /\ \A name \in DOMAIN all_interrupts :
              \A i \in 1..Len(name) : name[i] # "@"
       /\ args.object_model \in AnonymousOrAgreed => pc # "failed"
       /\ \A n \in 1..Len(locals.devlist) :
              /\ Len(locals.devlist[n].interrupts) = Len(InterruptNodes(n))
              /\ \A i \in 1..Len(InterruptNodes(n)) :
                     locals.devlist[n].base_interrupt
                         <= get(InterruptNodes(n)[i], K_numberAtReceiver).n
              /\ \E i \in 1..Len(InterruptNodes(n)) :
                     locals.devlist[n].base_interrupt
                         = get(InterruptNodes(n)[i], K_numberAtReceiver).n
       /\ Rendered
          => LET named == {i \in 1..Len(InterruptNodes(1)) :
                              ~Anonymous(InterruptNodes(1)[i])}
                 text == fs[P_base].interrupts
             IN  /\ text.INTERRUPT_COUNT = Len(InterruptNodes(1))
                 /\ Len(text.INTERRUPT_OFFSET) = Cardinality(named)
                 /\ \A m \in 1..Len(text.INTERRUPT_OFFSET) :
                        \E i \in named :
                            text.INTERRUPT_OFFSET[m].value =
                                get(InterruptNodes(1)[i], K_numberAtReceiver).n
                                    - locals.devlist[1].base_interrupt

\* a header has been rendered for two instances whose lowest interrupt is an
\* anonymous one, beside a named one
C15_Witness ==
    /\ tool = "generate_header"
    /\ Rendered
    /\ Len(locals.devlist) = 2
    /\ Len(InterruptNodes(1)) = 4
    /\ Len(fs[P_base].interrupts.INTERRUPT_OFFSET) = 1
    /\ \E i \in 1..4 :
           /\ Anonymous(InterruptNodes(1)[i])
           /\ locals.devlist[1].base_interrupt
                  = get(InterruptNodes(1)[i], K_numberAtReceiver).n

RECURSIVE NumberOf(_, _)
\* the number the digits s write in the radix
NumberOf(s, radix) ==
    IF s = <<>> THEN 0
    ELSE NumberOf(SubSeq(s, 1, Len(s) - 1), radix) * radix
             + (CHOOSE v \in 0..(radix - 1) : Digit[v + 1] = s[Len(s)])

RECURSIVE ArrayEntries(_)
\* the entries of an array literal, which ', ' separates
ArrayEntries(s) ==
    LET commas == {i \in 1..(Len(s) - 1) : s[i] = "," /\ s[i + 1] = " "} IN
    IF s = <<>> THEN <<>>
    ELSE IF commas = {} THEN <<s>>
    ELSE LET i == CHOOSE c \in commas : \A d \in commas : c <= d IN
         <<SubSeq(s, 1, i - 1)>> \o ArrayEntries(SubSeq(s, i + 2, Len(s)))

\* the base address the object model gives the n-th matched instance
BaseAddressOf(n) ==
    get(get(get(Matched[n][2], K_memoryRegions).items[1],
            K_addressSets).items[1], K_base).n

\* C17: the base header a run of generate_header.main renders has a COUNT
\* equal to the number of device instances found, and a BASES literal of as
\* many entries, the i-th of which is '0x' and the hexadecimal digits of the
\* base address of the instance of index i.
C17_CountConsistent ==
    (tool = "generate_header" /\ Rendered)
    => LET entries == ArrayEntries(fs[P_base].base_address) IN
       /\ Matched # <<>>
       /\ NumberOf(fs[P_base].dev_count, 10) = Len(Matched)
       /\ Len(entries) = Len(Matched)
       /\ \A n \in 1..Len(Matched) :
              /\ Matched[n][1] = n - 1
              /\ SubSeq(entries[n], 1, 2) = <<"0","x">>
              /\ NumberOf(SubSeq(entries[n], 3, Len(entries[n])), 16)
                     = BaseAddressOf(n)

\* a header has been rendered for two instances: COUNT 2 and
\* BASES {0x1000, 0x2000}
C17_Witness ==
    /\ tool = "generate_header"
    /\ Rendered
    /\ Len(Matched) = 2
    /\ fs[P_base].dev_count = S_2
    /\ fs[P_base].base_address = S_BASES

----------------------------------------------------------------------------
(* find_devices applied on its own to the object models of a bounded size: *)
(* the forests of up to MaxNodes nodes, each node a dict with or without   *)
(* type tags, which holds its children in a list or as its own values.     *)

\* the largest number of nodes of such an object model
MaxNodes == 3

K_id == <<"i","d">>
K_children == <<"c","h","i","l","d","r","e","n">>
K_child == <<"c","h","i","l","d">>
N_uart == <<"u","a","r","t">>
T_WidgetUART == <<"V",".","W","i","d","g","e","t","U","A","R","T">>
T_omuart == <<"o","m","u","a","r","t">>
T_OMUARTS == <<"O","M","U","A","R","T","S">>
T_OMDevice == <<"O","M","D","e","v","i","c","e">>

\* the type tags a node may declare
TagLists ==
    { <<>>,
      <<T_OM \o N_UART>>,
      <<T_OMDevice, T_OM \o N_UART>>,
      <<T_WidgetUART>>,
      <<T_omuart>>,
      <<T_OMUARTS>> }

\* the forests of n nodes: the parent of node i is a node before it, or 0
Forests(n) == {parent \in [1..n -> 0..n] : \A i \in 1..n : parent[i] < i}

RECURSIVE TreeNode(_, _, _)
\* node i of the forest f: the nodes of even number hold their children as
\* their own values, the others in a list
TreeNode(f, tags, i) ==
    LET kids == SelectSeq([j \in 1..Len(tags) |-> j], LAMBDA j : f[j] = i)
        nodes == [n \in 1..Len(kids) |-> TreeNode(f, tags, kids[n])]
        head_keys == IF tags[i] = <<>> THEN <<K_id>> ELSE <<K_types, K_id>>
        head_vals == IF tags[i] = <<>> THEN <<I(i)>>
                     ELSE <<L([n \in 1..Len(tags[i]) |-> S(tags[i][n])]), I(i)>>
    IN  IF i % 2 = 0
        THEN D(head_keys \o [n \in 1..Len(kids) |-> K_child \o str(n)],
               head_vals \o nodes)
        ELSE D(head_keys \o <<K_children>>, head_vals \o <<L(nodes)>>)

\* the object model of the forest f
Forest(f, tags) ==
    LET roots == SelectSeq([j \in 1..Len(tags) |-> j], LAMBDA j : f[j] = 0) IN
    L([n \in 1..Len(roots) |-> TreeNode(f, tags, roots[n])])

InitWalk ==
    /\ tool = "none"
    /\ \E n \in 0..MaxNodes :
           \E f \in Forests(n), tags \in [1..n -> TagLists],
              device \in {N_UART, N_uart} :
               args = [object_model |-> Forest(f, tags), device |-> device]
    /\ pc = "none"
    /\ locals = None
    /\ fs = <<>>
    /\ Fresh

FindDevices ==
    /\ call = None
    /\ call' = [fn |-> "find_devices"]
    /\ ret' = find_devices(args.object_model, args.device)
    /\ UNCHANGED <<tool, args, pc, all_registers, all_interrupts, NAME_DICT,
                   locals, fs, fs0, raised, stderr, before>>

NextWalk == FindDevices

SpecWalk == InitWalk /\ [][NextWalk]_vars

\* what a container holds, in document order
Held(j) == IF isdict(j) THEN j.vals ELSE IF islist(j) THEN j.items ELSE <<>>

RECURSIVE At(_, _)
\* the value at a path: the numbers of the values to go through from j
At(j, path) == IF path = <<>> THEN j ELSE At(Held(j)[Head(path)], Tail(path))

RECURSIVE ContainerPaths(_)
\* the paths of the containers of j
ContainerPaths(j) ==
    IF ~(isdict(j) \/ islist(j)) THEN {}
    ELSE {<<>>} \cup
         UNION {{<<i>> \o p : p \in ContainerPaths(Held(j)[i])} :
                   i \in 1..Len(Held(j))}

\* pre-order: a container before what it holds, and what it holds in
\* document order
Before(p, q) ==
    \/ Len(p) < Len(q) /\ SubSeq(q, 1, Len(p)) = p
    \/ \E i \in 1..Len(p) :
           /\ i <= Len(q)
           /\ SubSeq(p, 1, i - 1) = SubSeq(q, 1, i - 1)
           /\ p[i] < q[i]

\* the node declares the tag 'OM' + device among its types
Declares(j, device) ==
    /\ isdict(j)
    /\ haskey(j, K_types)
    /\ \E i \in 1..Len(get(j, K_types).items) :
           get(j, K_types).items[i] = S(T_OM \o device)

DevicePaths ==
    {p \in ContainerPaths(args.object_model) :
        Declares(At(args.object_model, p), args.device)}

\* the depth of a node: the number of dicts above it
Depth(p) ==
    Cardinality({n \in 0..(Len(p) - 1) :
                    isdict(At(args.object_model, SubSeq(p, 1, n)))})

\* C8: find_devices returns the matched nodes paired with 0, 1, ..., n-1 in
\* pre-order, at whatever depth each is nested.
C8_DiscoveryOrder ==
    (call # None /\ call.fn = "find_devices" /\ ret.raised = Ok)
    => /\ Len(ret.value) = Cardinality(DevicePaths)
       /\ \A p \in DevicePaths :
              LET index == Cardinality({q \in DevicePaths : Before(q, p)}) IN
              ret.value[index + 1] = <<index, At(args.object_model, p)>>

\* three devices were found, the second nested in the first and the third
\* beside the first
C8_Witness ==
    /\ call # None /\ call.fn = "find_devices" /\ ret.raised = Ok
    /\ Len(ret.value) = 3
    /\ \E p, q, r \in DevicePaths :
           /\ Before(p, q) /\ Before(q, r)
           /\ Depth(p) = 0 /\ Depth(q) = 1 /\ Depth(r) = 0

\* a type tag ends with the device name, whatever the case of the letters
SuffixMatch(j, device) ==
    /\ isdict(j)
    /\ haskey(j, K_types)
    /\ \E i \in 1..Len(get(j, K_types).items) :
           LET tag == lower(get(j, K_types).items[i].s) IN
           /\ Len(tag) >= Len(device)
           /\ SubSeq(tag, Len(tag) - Len(device) + 1, Len(tag)) = lower(device)

Returned(j) == \E i \in 1..Len(ret.value) : ret.value[i][2] = j

\* C9, as claimed: find_devices returns a node if and only if one of its type
\* tags ends with the device name, compared without regard to case.
C9_SuffixMatch ==
    (call # None /\ call.fn = "find_devices" /\ ret.raised = Ok)
    => \A p \in ContainerPaths(args.object_model) :
           Returned(At(args.object_model, p))
               <=> SuffixMatch(At(args.object_model, p), args.device)

\* C9, amended: find_devices returns a node if and only if its list of type
\* tags holds the tag 'OM' + device itself, letter for letter; a tag that
\* only ends with the device name does not make a device of the node.
C9_ExactTag ==
    (call # None /\ call.fn = "find_devices" /\ ret.raised = Ok)
    => \A p \in ContainerPaths(args.object_model) :
           Returned(At(args.object_model, p))
               <=> Declares(At(args.object_model, p), args.device)

\* find_devices has returned one of two nodes whose tags both end with the
\* device name
C9_Witness ==
    /\ call # None /\ call.fn = "find_devices" /\ ret.raised = Ok
    /\ args.device = N_UART
    /\ Len(ret.value) = 1
    /\ \E p \in ContainerPaths(args.object_model) :
           /\ SuffixMatch(At(args.object_model, p), args.device)
           /\ ~Returned(At(args.object_model, p))

----------------------------------------------------------------------------
(* The queries of generate_drivers applied on their own to the documents   *)
(* of a bounded size: the forests of up to MaxNodes dicts, each with one   *)
(* entry of its own, a number and the list of its children.                *)

P_foo == <<"f","o","o">>
P_foobar == <<"f","o","o","b","a","r">>
P_xfoobar == <<"x","f","o","o","b","a","r">>
P_bar == <<"b","a","r">>
K_tag == <<"t","a","g">>

\* the entry of its own a dict may hold
Entries ==
    { [key |-> K_name, val |-> S(P_foobar)],
      [key |-> K_name, val |-> S(P_xfoobar)],
      [key |-> K_name, val |-> L(<<S(P_bar), S(P_foo)>>)],
      [key |-> P_foobar, val |-> S(P_bar)],
      [key |-> P_xfoobar, val |-> I(1)],
      [key |-> K_tag, val |-> S(P_foo)] }

RECURSIVE EntryNode(_, _, _)
EntryNode(f, entries, i) ==
    LET kids == SelectSeq([j \in 1..Len(entries) |-> j], LAMBDA j : f[j] = i) IN
    D(<<entries[i].key, K_id, K_children>>,
      <<entries[i].val, I(i),
        L([n \in 1..Len(kids) |-> EntryNode(f, entries, kids[n])])>>)

\* the document of the forest f
Document(f, entries) ==
    LET roots == SelectSeq([j \in 1..Len(entries) |-> j], LAMBDA j : f[j] = 0) IN
    L([n \in 1..Len(roots) |-> EntryNode(f, entries, roots[n])])

InitQuery ==
    /\ tool = "none"
    /\ \E n \in 0..MaxNodes :
           \E f \in Forests(n), entries \in [1..n -> Entries],
              regex_str \in {P_foo, P_foobar} :
               args = [js_obj |-> Document(f, entries), field |-> K_name,
                       regex_str |-> regex_str]
    /\ pc = "none"
    /\ locals = None
    /\ fs = <<>>
    /\ Fresh

FindComponent ==
    /\ call = None
    /\ call' = [fn |-> "find_component"]
    /\ ret' = find_component(args.js_obj, args.regex_str)
    /\ UNCHANGED <<tool, args, pc, all_registers, all_interrupts, NAME_DICT,
                   locals, fs, fs0, raised, stderr, before>>

FindJsonFieldName ==
    /\ call = None
    /\ call' = [fn |-> "find_json_field_name"]
    /\ ret' = find_json_field_name(args.js_obj, args.field, args.regex_str)
    /\ UNCHANGED <<tool, args, pc, all_registers, all_interrupts, NAME_DICT,
                   locals, fs, fs0, raised, stderr, before>>

NextQuery == FindComponent \/ FindJsonFieldName

SpecQuery == InitQuery /\ [][NextQuery]_vars

\* p is s, or s cut after some character
IsPrefix(p, s) == \E n \in 0..Len(s) : SubSeq(s, 1, n) = p

\* the keys of a dict and those of its values that are strings
Candidates(d) ==
    {d.keys[i] : i \in 1..Len(d.keys)}
        \cup {d.vals[i].s : i \in {n \in 1..Len(d.vals) : isstr(d.vals[n])}}

\* the string that is the value of the field, or the strings of the list
\* that is its value
FieldCandidates(d, field) ==
    LET at == {i \in 1..Len(d.keys) : d.keys[i] = field} IN
    UNION { IF isstr(d.vals[i]) THEN {d.vals[i].s}
            ELSE IF islist(d.vals[i])
            THEN {d.vals[i].items[n].s :
                     n \in {m \in 1..Len(d.vals[i].items) :
                               isstr(d.vals[i].items[m])}}
            ELSE {} : i \in at }

Yielded(j) == \E i \in 1..Len(ret.value) : ret.value[i] = j

\* the dicts of the document that no other dict holds
Roots == {args.js_obj.items[i] : i \in 1..Len(args.js_obj.items)}

\* C10: for a literal pattern p, find_component yields a dict that no
\* matching dict holds exactly when p is a prefix of one of its keys or of
\* one of its string values, and find_json_field_name exactly when p is a
\* prefix of the string, or of a string of the list, that is the value of
\* the field: a candidate that holds p further on only does not match.
C10_PrefixMatch ==
    /\ (call # None /\ call.fn = "find_component")
       => \A d \in Roots :
              Yielded(d) <=> \E s \in Candidates(d) : IsPrefix(args.regex_str, s)
    /\ (call # None /\ call.fn = "find_json_field_name")
       => \A d \in Roots :
              Yielded(d) <=> \E s \in FieldCandidates(d, args.field) :
                                 IsPrefix(args.regex_str, s)

\* find_component('foo') has yielded a dict for its value "foobar" and left
\* out one whose value is "xfoobar"
C10_Witness ==
    /\ call # None /\ call.fn = "find_component"
    /\ args.regex_str = P_foo
    /\ \E d, e \in Roots :
           /\ Yielded(d) /\ P_foobar \in Candidates(d)
           /\ ~Yielded(e) /\ P_xfoobar \in Candidates(e)

----------------------------------------------------------------------------
(* The vtable renderers of generate_drivers and of om2files applied on     *)
(* their own to the register lists of up to MaxRegs registers.             *)

MaxRegs == 2

N_Ctrl == <<"C","t","r","l">>

\* the registers a list may hold: the names differ in case only or not at
\* all, the widths are the four of the C types and one that is none of them
VtableRegisters ==
    {DriverRegister(name, 0, width) :
        name \in {N_CTRL, N_Ctrl}, width \in {8, 32, 7}}

InitVtable ==
    /\ tool = "none"
    /\ \E n \in 0..MaxRegs :
           \E reg_list \in [1..n -> VtableRegisters] :
               args = [device_name |-> N_UART, reg_list |-> reg_list]
    /\ pc = "none"
    /\ locals = None
    /\ fs = <<>>
    /\ Fresh

GenerateVtableDeclarations ==
    /\ call = None
    /\ call' = [fn |-> "generate_drivers.generate_vtable_declarations"]
    /\ ret' = [raised |-> Ok,
               value |-> generate_vtable_declarations(args.device_name,
                                                      args.reg_list)]
    /\ UNCHANGED <<tool, args, pc, all_registers, all_interrupts, NAME_DICT,
                   locals, fs, fs0, raised, stderr, before>>

GenerateVtable ==
    /\ call = None
    /\ call' = [fn |-> "om2files.generate_vtable"]
    /\ ret' = om2files_generate_vtable(args.device_name, args.reg_list)
    /\ UNCHANGED <<tool, args, pc, all_registers, all_interrupts, NAME_DICT,
                   locals, fs, fs0, raised, stderr, before>>

NextVtable == GenerateVtableDeclarations \/ GenerateVtable

SpecVtable == InitVtable /\ [][NextVtable]_vars

\* a renderer has returned 2n declarations: for the i-th register of the
\* list its write declaration, then its read declaration
TwoPerRegister ==
    /\ ret.raised = Ok
    /\ Len(ret.value) = 2 * Len(args.reg_list)
    /\ \A i \in 1..Len(args.reg_list) :
           /\ ret.value[2 * i - 1].func = "write_func"
           /\ ret.value[2 * i].func = "read_func"
           /\ \A d \in {ret.value[2 * i - 1], ret.value[2 * i]} :
                  /\ d.device = args.device_name
                  /\ d.reg_name = lower(args.reg_list[i].name)
                  /\ d.size = args.reg_list[i].width

----------------------------------------------------------------------------
(* generate_header.generate_base_hdr applied on its own, twice in a row on *)
(* the same device list, the second call on the NAME_DICT the first left.  *)

\* the register lists of the first device
RenderRegisters ==
    {Register(N_CTRL, 0, 32, <<>>), Register(N_CTRL, 0, 32, G_G),
     Register(reserved, 32, 8, <<>>)}

\* the interrupt lists of a device
RenderInterrupts ==
    {<<>>, <<Interrupt(2, <<>>)>>, <<Interrupt(3, N_rx), Interrupt(2, <<>>)>>}

\* the device lists: the registers of the devices after the first are never
\* rendered
RenderDevices ==
    UNION {[1..n -> {0}] : n \in 0..MaxDevices}

InitRender ==
    /\ tool = "none"
    /\ \E shape \in RenderDevices, interrupts \in RenderInterrupts :
       \E n \in 0..MaxRegs : \E registers \in [1..n -> RenderRegisters] :
           args = [vendor |-> N_sifive, device |-> N_UART,
                   devlist |->
                       [i \in 1..Len(shape) |->
                           DeviceBase(N_UART, i - 1,
                               IF interrupts = <<>> THEN 0 ELSE 2,
                               BaseOf(i), interrupts,
                               IF i = 1 THEN registers ELSE <<>>)]]
    /\ pc = "none"
    /\ locals = [results |-> <<>>]
    /\ fs = <<>>
    /\ Fresh

\* generate_base_hdr(vendor, device, devlist)
GenerateBaseHdr ==
    /\ Len(locals.results) < 2
    /\ LET r == generate_base_hdr(args.vendor, args.device, args.devlist,
                                  NAME_DICT)
       IN  /\ NAME_DICT' = r.NAME_DICT
           /\ locals' = [results |-> Append(locals.results,
                                           [raised |-> r.raised,
                                            value |-> r.value])]
           /\ before' = NAME_DICT
    /\ UNCHANGED <<tool, args, pc, all_registers, all_interrupts,
                   fs, fs0, raised, stderr, call, ret>>

NextRender == GenerateBaseHdr

SpecRender == InitRender /\ [][NextRender]_vars

\* C12: two calls of generate_base_hdr in a row with the same vendor, device
\* and device list return the same text (or raise the same exception),
\* whatever the first call left in NAME_DICT.
C12_Deterministic ==
    Len(locals.results) = 2 => locals.results[1] = locals.results[2]

\* the second call has rendered the macros of a register on a counter that
\* the first call had changed
C12_Witness ==
    /\ Len(locals.results) = 2
    /\ locals.results[2].raised = Ok
    /\ locals.results[2].value.register_offsets # <<>>
    /\ before # <<>>
    /\ NAME_DICT # before

----------------------------------------------------------------------------
(* Any sequence of calls of Interrupt.make_interrupt on the class-level    *)
(* cache.                                                                  *)

N_tx == <<"t","x">>

IntNames == {<<>>, N_rx, N_tx}
IntNumbers == {-1, 2, 5}

InitInt == InitReg

MakeInterrupt ==
    \E number \in IntNumbers, name \in IntNames :
        LET r == make_interrupt(all_interrupts, number, name) IN
        /\ call' = [fn |-> "make_interrupt", number |-> number, name |-> name]
        /\ before' = all_interrupts
        /\ ret' = [raised |-> r.raised, value |-> r.value]
        /\ all_interrupts' = r.all_interrupts
        /\ UNCHANGED <<tool, args, pc, all_registers, NAME_DICT, locals,
                       fs, fs0, raised, stderr>>

NextInt == MakeInterrupt

SpecInt == InitInt /\ [][NextInt]_vars

\* the call in progress is make_interrupt on a non-empty name the cache
\* already holds
CachedInterruptCall ==
    /\ call # None
    /\ call.fn = "make_interrupt"
    /\ call.name # <<>>
    /\ call.name \in DOMAIN before

\* C14: make_interrupt on a non-empty cached name returns the cached
\* interrupt when the number is the cached one and raises when it is
\* another, the cache staying as it was either way; a name that is not
\* cached is accepted with any number, negative ones included.
C14_InterruptDedup ==
    /\ CachedInterruptCall
       => /\ all_interrupts = before
          /\ IF call.number = before[call.name].number
             THEN ret.raised = Ok /\ ret.value = before[call.name]
             ELSE ret.raised = Exception
    /\ (call # None /\ call.fn = "make_interrupt"
            /\ ~CachedInterruptCall)
       => /\ ret.raised = Ok
          /\ ret.value = Interrupt(call.number, call.name)

\* a cached name, accepted with the number -1, has been extracted with
\* another number, and the call has raised
C14_Witness ==
    /\ CachedInterruptCall
    /\ before[call.name].number = -1
    /\ call.number = 5
    /\ ret.raised = Exception

----------------------------------------------------------------------------
(* Register.make_register on names and groups that hold the '-' of the     *)
(* cache key f'{name}-{group}'.                                            *)

N_A == <<"A">>
N_A_B == <<"A","-","B">>
G_C == <<"C">>
G_B_C == <<"B","-","C">>

KeyNames == {N_A, N_A_B}
KeyGroups == {G_C, G_B_C}

InitKey == InitReg

MakeRegisterKeyed ==
    \E name \in KeyNames, offset \in RegOffsets, group \in KeyGroups :
        LET r == make_register(all_registers, name, offset, 32, group) IN
        /\ call' = [fn |-> "make_register", name |-> name, offset |-> offset,
                    width |-> 32, group |-> group]
        /\ before' = all_registers
        /\ ret' = [raised |-> r.raised, value |-> r.value]
        /\ all_registers' = r.all_registers
        /\ UNCHANGED <<tool, args, pc, all_interrupts, NAME_DICT, locals,
                       fs, fs0, raised, stderr>>

NextKey == MakeRegisterKeyed

SpecKey == InitKey /\ [][NextKey]_vars

\* the registers the cache held when the call in progress started
CachedBefore == {before[key] : key \in DOMAIN before}

\* C18: a register whose (name, group) pair is not that of any cached
\* register is extracted as a new register: the call raises no conflict and
\* returns the register described, not a cached one.
C18_PairIdentity ==
    (/\ call # None /\ call.fn = "make_register"
     /\ \A r \in CachedBefore : <<r.name, r.group>> # <<call.name, call.group>>)
    => /\ ret.raised = Ok
       /\ ret.value = Register(call.name, call.offset, call.width, call.group)

\* the dict matches the query of the call in progress
Matches(d) ==
    IF call.fn = "find_component"
    THEN \E s \in Candidates(d) : IsPrefix(args.regex_str, s)
    ELSE \E s \in FieldCandidates(d, args.field) : IsPrefix(args.regex_str, s)

\* the paths of the dicts of the document
DictPaths ==
    {p \in ContainerPaths(args.js_obj) : isdict(At(args.js_obj, p))}

\* the paths of the matching dicts
MatchPaths == {p \in DictPaths : Matches(At(args.js_obj, p))}

\* the paths of the matching dicts that no matching dict holds
TopMatchPaths ==
    {p \in MatchPaths :
        \A n \in 0..(Len(p) - 1) : SubSeq(p, 1, n) \notin MatchPaths}

\* C19: find_component and find_json_field_name yield each matching dict
\* that no matching dict holds, once and in pre-order, and nothing else: no
\* node they yield lies inside another node they yield.
C19_MatchPruning ==
    (call # None /\ call.fn \in {"find_component", "find_json_field_name"})
    => LET top == TopMatchPaths IN
       /\ Len(ret.value) = Cardinality(top)
       /\ \A p \in top :
              ret.value[Cardinality({q \in top : Before(q, p)}) + 1]
                  = At(args.js_obj, p)
       /\ \A i, j \in 1..Len(ret.value) :
              \A p \in ContainerPaths(ret.value[j]) :
                  At(ret.value[j], p) = ret.value[i] => p = <<>>

\* a query has yielded two dicts and left out a matching dict that lies
\* inside the first of them
C19_Witness ==
    /\ call # None /\ call.fn \in {"find_component", "find_json_field_name"}
    /\ Len(ret.value) = 2
    /\ \E p \in MatchPaths \ TopMatchPaths :
           \E q \in ContainerPaths(ret.value[1]) :
               At(ret.value[1], q) = At(args.js_obj, p)

----------------------------------------------------------------------------
(* The queries of generate_drivers invoked twice on the same argument. A   *)
(* query returns a generator; main hands the generator of one query to the *)
(* next as its document. locals.lazy is what such a generator has yet to   *)
(* yield: drawing from a query over it draws from it.                      *)

RequeryEntries ==
    { [key |-> K_name, val |-> S(P_foobar)],
      [key |-> K_name, val |-> S(P_xfoobar)],
      [key |-> K_tag, val |-> S(P_foo)] }

InitRequery ==
    /\ tool = "none"
    /\ \E n \in 0..MaxNodes :
           \E f \in Forests(n), entries \in [1..n -> RequeryEntries] :
               args = [js_obj |-> Document(f, entries), field |-> K_name,
                       regex_str |-> P_foo]
    /\ pc = "none"
    /\ locals = [lazy |-> <<>>, results |-> <<>>]
    /\ fs = <<>>
    /\ Fresh

\* list(find_component(js_obj, regex_str)) on the document itself, or on
\* the first dict it holds: an argument that is a list, or a dict
QueryDocument ==
    /\ \/ call = None
       \/ call # None /\ call.fn = "find_component" /\ Len(locals.results) < 2
    /\ \E js_obj \in IF call # None THEN {call.js_obj}
                     ELSE {args.js_obj}
                              \cup {args.js_obj.items[i] :
                                       i \in 1..Len(args.js_obj.items)} :
           /\ call' = [fn |-> "find_component", js_obj |-> js_obj]
           /\ locals' = [locals EXCEPT !.results =
                  Append(@, find_component(js_obj, args.regex_str).value)]
    /\ UNCHANGED <<tool, args, pc, all_registers, all_interrupts, NAME_DICT,
                   fs, fs0, raised, stderr, ret, before>>

\* memory_regions = find_json_field_name(js_obj, field, regex_str): a
\* generator, which has drawn nothing yet
Chain ==
    /\ call = None
    /\ call' = [fn |-> "find_json_field_name"]
    /\ locals' = [locals EXCEPT !.lazy =
                      find_json_field_name(args.js_obj, args.field,
                                           args.regex_str).value]
    /\ UNCHANGED <<tool, args, pc, all_registers, all_interrupts, NAME_DICT,
                   fs, fs0, raised, stderr, ret, before>>

\* list(find_json_field_name(memory_regions, field, regex_str)): the loop of
\* search_json_field over the generator draws it to its end
QueryLazy ==
    /\ call # None /\ call.fn = "find_json_field_name"
    /\ Len(locals.results) < 2
    /\ locals' = [lazy |-> <<>>,
                  results |-> Append(locals.results,
                      find_json_field_name(L(locals.lazy), args.field,
                                           args.regex_str).value)]
    /\ UNCHANGED <<tool, args, pc, all_registers, all_interrupts, NAME_DICT,
                   fs, fs0, raised, stderr, call, ret, before>>

NextRequery == QueryDocument \/ Chain \/ QueryLazy

SpecRequery == InitRequery /\ [][NextRequery]_vars

\* C20: a query invoked a second time on the same document argument and
\* pattern yields the sequence the first invocation yielded, whether the
\* argument is a dict, a list or the lazy sequence an earlier query returned.
C20_Restartable ==
    Len(locals.results) = 2 => locals.results[1] = locals.results[2]
\* generate_header.main has created the base header that was missing
HeaderCreated ==
    fs0[P_base] = NoFile
    => fs[P_base] = generate_base_hdr(args.vendor, args.device,
                                      locals.devlist, <<>>).value

\* generate_drivers.main has created the files of its mode that were missing
DriversCreated ==
    /\ fs0[P_base] = NoFile
       => fs[P_base] = drivers_generate_base_hdr(args.vendor, args.device,
                                                 DriverBase(0), locals.reglist)
    /\ ~args.base_header_only
       => /\ fs0[P_driver] = NoFile
             => fs[P_driver] = generate_metal_dev_drv(args.vendor, args.device,
                                                      0, locals.reglist)
          /\ \A i \in 0..(Len(locals.devices) - 1) :
                 fs0[P_header(i)] = NoFile
                 => fs[P_header(i)] =
                        generate_metal_dev_hdr(args.vendor, args.device, i,
                                               DriverBase(i), locals.reglist)

\* C25: after a run of generate_drivers.main or generate_header.main that
\* ended without error, each output file of the selected mode that was not
\* there before the run is there and holds the rendered text, with and
\* without the overwrite flag.
C25_MissingCreated ==
    pc = "done"
    => /\ tool = "generate_header" => HeaderCreated
       /\ (tool = "generate_drivers" /\ locals.devices # <<>>)
          => DriversCreated

----------------------------------------------------------------------------
(* The diagnostics of a run of generate_header.main                        *)

\* the names the run has reported as repeated
Reported ==
    {stderr[i].name :
        i \in {j \in 1..Len(stderr) : stderr[j].message = "Variable repeated"}}

\* the run renders the header: there was none when it started, or it was
\* told to overwrite
Renders == args.overwrite_existing \/ fs0[P_base] = NoFile

\* the registers the run composes a macro name for
Named ==
    IF Renders /\ locals.devlist # <<>>
    THEN SelectSeq(locals.devlist[1].registers, LAMBDA r : r.name # reserved)
    ELSE <<>>

\* the number of registers of the run the name k was composed for
TimesComposed(k) ==
    Cardinality({i \in 1..Len(Named) : macro_name(upper(args.device), Named[i]) = k})

\* C23: a run of generate_header.main reports a macro name as repeated if and
\* only if generate_offsets composed that name for more than one register of
\* the run; nothing is reported before the header has been rendered and
\* written (or kept), and a run that reports has not failed and has written
\* the text it would have written without the reports.
C23_RepeatedReported ==
    tool = "generate_header" =>
        /\ pc # "done" => Reported = {}
        /\ pc = "done" =>
               /\ Reported =
                      {k \in {macro_name(upper(args.device), Named[i]) :
                                 i \in 1..Len(Named)} : TimesComposed(k) > 1}
               /\ raised = Ok
               /\ fs[P_base] =
                      IF Renders
                      THEN generate_base_hdr(args.vendor, args.device,
                                             locals.devlist, <<>>).value
                      ELSE fs0[P_base]

\* a run has written a header with the macros of two registers of one name,
\* and reported the name
C23_Witness ==
    /\ tool = "generate_header" /\ ~SecondRun /\ pc = "done"
    /\ raised = Ok
    /\ Reported = {<<"U","A","R","T","_","R","E","G","I","S","T","E","R",
                     "_","C","T","R","L","_","E","N">>}
    /\ fs[P_base] # OldText
    /\ Len(fs[P_base].register_offsets) = 2

----------------------------------------------------------------------------
(* generate_header.generate_offsets applied on its own, to a device list   *)
(* whose first instance has the registers drawn and whose second instance  *)
(* has a register of its own.                                              *)

N_ctrl_en == <<" ","c","t","r","l","_","e"," ","n"," ">>
G_g_ctrl == <<"g","_","c","t","r","l">>

OffsetNames == {reserved, N_CTRL, N_CTRL_EN, N_ctrl_en}
OffsetGroups == {<<>>, N_CTRL, G_g_ctrl, G_G}

\* the bit offset of the registers of a group
OffsetOf(group) ==
    CASE group = <<>> -> 0
      [] group = N_CTRL -> 13
      [] group = G_g_ctrl -> 64
      [] group = G_G -> 7

\* the registers of the first instance: one bit wide off a byte boundary,
\* 32 bits wide on one
OffsetRegisters ==
    {Register(name, OffsetOf(group),
              IF OffsetOf(group) % 8 = 0 THEN 32 ELSE 1, group) :
        name \in OffsetNames, group \in OffsetGroups}

InitOffsets ==
    /\ tool = "none"
    /\ \E n \in 0..MaxRegs : \E registers \in [1..n -> OffsetRegisters] :
       \E others \in BOOLEAN :
           args = [device_name |-> N_UART,
                   dev_list |->
                       <<DeviceBase(N_UART, 0, 2, BaseOf(1), <<>>, registers)>>
                       \o IF others
                          THEN <<DeviceBase(N_UART, 1, 2, BaseOf(2), <<>>,
                                            <<Register(N_STAT, 8, 8, <<>>)>>)>>
                          ELSE <<>>]
    /\ pc = "none"
    /\ locals = <<>>
    /\ fs = <<>>
    /\ Fresh

\* generate_offsets(device_name, dev_list)
GenerateOffsets ==
    /\ call = None
    /\ LET r == generate_offsets(args.device_name, args.dev_list, NAME_DICT)
       IN  /\ NAME_DICT' = r.NAME_DICT
           /\ ret' = [raised |-> Ok, value |-> r.value]
    /\ call' = [fn |-> "generate_offsets"]
    /\ UNCHANGED <<tool, args, pc, locals, all_registers, all_interrupts,
                   fs, fs0, raised, stderr, before>>

NextOffsets == GenerateOffsets

SpecOffsets == InitOffsets /\ [][NextOffsets]_vars

\* the registers of the first instance that are not named "reserved"
Described1 ==
    SelectSeq(args.dev_list[1].registers, LAMBDA r : r.name # reserved)

\* the text of a macro line is the four macros of the register a_reg
FourMacros(lines, a_reg) ==
    /\ Len(lines) = 4
    /\ lines[2].name = lines[1].name \o <<"_","B","Y","T","E">>
    /\ lines[3].name = lines[1].name \o <<"_","B","I","T">>
    /\ lines[4].name = lines[1].name \o <<"_","W","I","D","T","H">>
    /\ lines[1].value = a_reg.offset
    /\ lines[4].value = a_reg.width
    /\ a_reg.offset >= 0 =>
           /\ lines[2].value = a_reg.offset \div 8
           /\ lines[3].value = a_reg.offset % 8
           /\ lines[3].value \in 0..7
           /\ 8 * lines[2].value + lines[3].value = a_reg.offset

\* C21: generate_offsets emits, for the registers of the first device
\* instance and in their order, four macros (bit offset, _BYTE, _BIT, _WIDTH)
\* per register not named "reserved" and nothing for a "reserved" one; for an
\* offset >= 0, BYTE = offset div 8, BIT = offset mod 8, 0 <= BIT <= 7 and
\* 8*BYTE + BIT = offset.
C21_OffsetMacros ==
    (call # None /\ call.fn = "generate_offsets") =>
        /\ Len(ret.value) = Len(Described1)
        /\ \A i \in 1..Len(ret.value) : FourMacros(ret.value[i], Described1[i])

\* a "reserved" register was skipped between two described ones, one of them
\* off a byte boundary, and a second instance had a register of its own
C21_Witness ==
    /\ call # None /\ call.fn = "generate_offsets"
    /\ Len(args.dev_list) = 2
    /\ Len(args.dev_list[1].registers) = 2
    /\ \E i \in 1..2 : args.dev_list[1].registers[i].name = reserved
    /\ Len(ret.value) = 1
    /\ ret.value[1][1].value = 13
    /\ ret.value[1][2].value = 1
    /\ ret.value[1][3].value = 5
\* the text s cut at its last "_": before it, and after it (all of s after
\* an empty before, when s has no "_")
CutAtLast(s) ==
    LET us == {k \in 1..Len(s) : s[k] = "_"} IN
    IF us = {} THEN [before |-> <<>>, after |-> s]
    ELSE LET k == CHOOSE k \in us : \A j \in us : j <= k IN
         [before |-> SubSeq(s, 1, k - 1), after |-> SubSeq(s, k + 1, Len(s))]

\* DEVICE_REGISTER_[GROUP_]NAME
Composed(group, name) ==
    <<"U","A","R","T","_","R","E","G","I","S","T","E","R","_">>
        \o (IF group = <<>> THEN <<>> ELSE group \o <<"_">>) \o name

\* the name emitted for the i-th described register
EmittedName(i) == ret.value[i][1].name

\* C22 as stated: the last segment of the normalized group is removed from
\* the group whenever the normalized name begins with that segment, and the
\* group is used unchanged otherwise.
C22_SegmentRemoved ==
    (call # None /\ call.fn = "generate_offsets") =>
        \A i \in 1..Len(Described1) :
            LET name == normalized(Described1[i].name)
                group == normalized(Described1[i].group)
            IN  EmittedName(i) =
                    IF IsPrefix(CutAtLast(group).after, name)
                    THEN Composed(CutAtLast(group).before, name)
                    ELSE Composed(group, name)

\* C22, amended: the last segment of the normalized group is removed from
\* the group exactly when the normalized name begins with that segment
\* followed by "_"; a name that is the segment, or goes on after it without
\* a "_", leaves the group unchanged. An empty resulting group gives
\* DEVICE_REGISTER_NAME, with nothing between "REGISTER_" and the name.
C22_SegmentAndUnderscoreRemoved ==
    (call # None /\ call.fn = "generate_offsets") =>
        \A i \in 1..Len(Described1) :
            LET name == normalized(Described1[i].name)
                group == normalized(Described1[i].group)
            IN  EmittedName(i) =
                    IF IsPrefix(CutAtLast(group).after \o <<"_">>, name)
                    THEN Composed(CutAtLast(group).before, name)
                    ELSE Composed(group, name)

\* " ctrl_e n " of group "CTRL" was named UART_REGISTER_CTRL_EN, its group
\* left empty, and "CTRL" of group "g_ctrl" UART_REGISTER_G_CTRL_CTRL
C22_Witness ==
    /\ call # None /\ call.fn = "generate_offsets"
    /\ Len(Described1) = 2
    /\ Described1[1].name = N_ctrl_en /\ Described1[1].group = N_CTRL
    /\ EmittedName(1) = <<"U","A","R","T","_","R","E","G","I","S","T","E","R",
                          "_","C","T","R","L","_","E","N">>
    /\ Described1[2].name = N_CTRL /\ Described1[2].group = G_g_ctrl
    /\ EmittedName(2) = <<"U","A","R","T","_","R","E","G","I","S","T","E","R",
                          "_","G","_","C","T","R","L","_","C","T","R","L">>
----------------------------------------------------------------------------
(* generate_header.find_interrupts applied on its own to a matched device  *)
(* node, as main applies it: an 'OMUART' node over a forest of up to       *)
(* MaxNodes nodes, which are interrupts, further nodes whose type tags end *)
(* with the device name, or other nodes.                                   *)

\* the type tags of the nodes below the device node
CollectTagLists ==
    { <<>>,
      <<T_OMInterrupt>>,
      <<T_OMDevice, T_OMInterrupt>>,
      <<T_WidgetUART>>,
      <<T_OMDevice>> }

RECURSIVE CollectNode(_, _, _)
\* node i of the forest f, with numberAtReceiver = i and with no name
CollectNode(f, tags, i) ==
    LET kids == SelectSeq([j \in 1..Len(tags) |-> j], LAMBDA j : f[j] = i)
        nodes == [n \in 1..Len(kids) |-> CollectNode(f, tags, kids[n])]
    IN  IF tags[i] = <<>>
        THEN D(<<K_numberAtReceiver, K_children>>, <<I(i), L(nodes)>>)
        ELSE D(<<K_types, K_numberAtReceiver, K_children>>,
               <<L([n \in 1..Len(tags[i]) |-> S(tags[i][n])]), I(i),
                 L(nodes)>>)

\* the device node over the forest f
CollectDevice(f, tags) ==
    LET roots == SelectSeq([j \in 1..Len(tags) |-> j], LAMBDA j : f[j] = 0) IN
    D(<<K_types, K_interrupts>>,
      <<L(<<S(T_OM \o N_UART)>>),
        L([n \in 1..Len(roots) |-> CollectNode(f, tags, roots[n])])>>)

InitCollect ==
    /\ tool = "none"
    /\ \E n \in 0..MaxNodes :
           \E f \in Forests(n), tags \in [1..n -> CollectTagLists] :
               args = [object_model |-> CollectDevice(f, tags),
                       device |-> N_UART]
    /\ pc = "none"
    /\ locals = None
    /\ fs = <<>>
    /\ Fresh

\* intlist = find_interrupts(dev_om, device)
FindInterrupts ==
    /\ call = None
    /\ call' = [fn |-> "find_interrupts"]
    /\ LET r == find_interrupts(args.object_model, args.device, all_interrupts)
       IN  /\ ret' = [raised |-> r.raised, value |-> r.value]
           /\ all_interrupts' = r.all_interrupts
    /\ UNCHANGED <<tool, args, pc, all_registers, NAME_DICT, locals, fs, fs0,
                   raised, stderr, before>>

NextCollect == FindInterrupts

SpecCollect == InitCollect /\ [][NextCollect]_vars

\* the node is a dict with the tag among its type tags
Tagged(j, tag) ==
    /\ isdict(j)
    /\ haskey(j, K_types)
    /\ \E i \in 1..Len(get(j, K_types).items) :
           get(j, K_types).items[i] = S(tag)

\* the paths of the interrupt-typed nodes of the device subtree
InterruptPaths ==
    {p \in ContainerPaths(args.object_model) :
        Tagged(At(args.object_model, p), T_OMInterrupt)}

\* the paths of the nodes below the device node whose type tags end with the
\* device name
NestedPaths ==
    {p \in ContainerPaths(args.object_model) \ {<<>>} :
        Tagged(At(args.object_model, p), T_WidgetUART)}

\* C24: find_interrupts applied to a matched device node returns one
\* Interrupt for each interrupt-typed node anywhere in the subtree of that
\* node, in pre-order, also when the subtree holds further nodes whose type
\* tags end with the device name.
C24_WholeSubtree ==
    (call # None /\ call.fn = "find_interrupts") =>
        /\ ret.raised = Ok
        /\ Len(ret.value) = Cardinality(InterruptPaths)
        /\ \A p \in InterruptPaths :
               LET index == Cardinality({q \in InterruptPaths : Before(q, p)})
               IN  ret.value[index + 1] =
                       Interrupt(get(At(args.object_model, p),
                                     K_numberAtReceiver).n, <<>>)

====
